---- MODULE Spec2Model ----
(***************************************************************************)
(* Core Stability Engine of concertina: the record-batch wire codec, the   *)
(* growable columnar store, the window packer, the DataWorker command      *)
(* loop, and the main-thread ingest pump with its consumer store.          *)
(*                                                                         *)
(* An ArrayBuffer is a sequence of bytes (0..255).  A typed array is the   *)
(* sequence of its elements; Uint32Array elements are numbers, the         *)
(* elements of a numeric column are kept as their raw element bytes, so    *)
(* every element width of the wire format is kept.                         *)
(***************************************************************************)
EXTENDS Integers, Sequences, FiniteSets, TLC

\* ------------------------------------------------------------------------
\* Small helpers

Min(a, b) == IF a < b THEN a ELSE b

Max(a, b) == IF a > b THEN a ELSE b

\* n zero bytes: the content of freshly allocated typed-array storage
Zeros(n) == [i \in 1..n |-> 0]

RECURSIVE Flatten(_)
Flatten(ss) == IF ss = <<>> THEN <<>> ELSE Head(ss) \o Flatten(Tail(ss))

RECURSIVE SumLen(_)
SumLen(ss) == IF ss = <<>> THEN 0 ELSE Len(Head(ss)) + SumLen(Tail(ss))

\* ------------------------------------------------------------------------
\* types.ts: wire constants

\* 0xac1dc0de as its four little-endian bytes (the width of the word is kept)
BATCH_MAGIC == <<222, 192, 29, 172>>

TYPE_TAG == [f64 |-> 0, i32 |-> 1, u32 |-> 2, bool |-> 3, timestamp_ms |-> 4,
             utf8 |-> 5, list_utf8 |-> 6]

\* TAG_TO_TYPE[tag] is element tag+1; any other tag is undefined
TAG_TO_TYPE == <<"f64", "i32", "u32", "bool", "timestamp_ms", "utf8", "list_utf8">>

CELL_H_PADDING == 16

\* bytes per element of the typed array that backs a numeric column type
ElemSize(type) ==
  CASE type \in {"f64", "timestamp_ms"} -> 8
    [] type \in {"i32", "u32"}          -> 4
    [] type = "bool"                    -> 1

\* ------------------------------------------------------------------------
\* ArrayBuffer / DataView / typed-array primitives

\* ArrayBuffer.prototype.slice(begin, end): both ends are clamped to the length
Slice(buf, begin, end) == SubSeq(buf, Min(begin, Len(buf)) + 1, Min(end, Len(buf)))

\* DataView.getUint32(off, true) throws a RangeError unless 4 bytes are there
CanGetUint32(buf, off) == off + 4 <= Len(buf)

GetUint32(buf, off) ==
  buf[off + 1] + 256 * buf[off + 2] + 65536 * buf[off + 3] + 16777216 * buf[off + 4]

\* DataView.setUint32(off, n, true): the four little-endian bytes of n
SetUint32(n) ==
  <<n % 256, (n \div 256) % 256, (n \div 65536) % 256, (n \div 16777216) % 256>>

\* new Uint32Array(buffer): defined only when the byte length is a multiple of 4
Uint32ArrayOf(buf) == [i \in 1..(Len(buf) \div 4) |-> GetUint32(buf, (i - 1) * 4)]

\* .buffer of a Uint32Array: its elements as bytes
Uint32Bytes(arr) == Flatten([i \in 1..Len(arr) |-> SetUint32(arr[i])])

\* new Float64Array/Int32Array/Uint32Array/Uint8Array(buffer): the elements,
\* each kept as its raw bytes
TypedArrayOf(buf, size) ==
  [i \in 1..(Len(buf) \div size) |-> SubSeq(buf, (i - 1) * size + 1, i * size)]

\* TypedArray.prototype.slice(begin, end) / subarray(begin, end) on elements
ArrSlice(arr, begin, end) == SubSeq(arr, Min(begin, Len(arr)) + 1, Min(end, Len(arr)))

\* read of element i (0-based) of storage whose live prefix is arr: the rest
\* of the allocated capacity is still zero
StoreAt(arr, i) == IF i < Len(arr) THEN arr[i + 1] ELSE 0

\* ------------------------------------------------------------------------
\* data-worker.ts: parseBatch

\* a ParsedColData; data = null is hasData = FALSE
ParsedCol(type) ==
  [type |-> type, hasData |-> FALSE, data |-> <<>>,
   utf8Offsets |-> <<>>, utf8Bytes |-> <<>>,
   listTotalItems |-> 0, listRowOffsets |-> <<>>, listItemOffsets |-> <<>>,
   listBytes |-> <<>>]

ParseFail(err) == [ok |-> FALSE, err |-> err]

\* the descriptor loop: tag and byteLen are read, then the tag is looked up
RECURSIVE ReadDescriptors(_, _, _, _)
ReadDescriptors(buf, cursor, remaining, acc) ==
  IF remaining = 0
  THEN [ok |-> TRUE, err |-> "", descriptors |-> acc, cursor |-> cursor]
  ELSE IF ~CanGetUint32(buf, cursor) \/ ~CanGetUint32(buf, cursor + 4)
  THEN [ok |-> FALSE, err |-> "RangeError", descriptors |-> acc, cursor |-> cursor]
  ELSE LET typeTag == GetUint32(buf, cursor)
           byteLen == GetUint32(buf, cursor + 4)
       IN  IF (typeTag + 1) \notin DOMAIN TAG_TO_TYPE
           THEN [ok |-> FALSE, err |-> "Unknown type tag", descriptors |-> acc,
                 cursor |-> cursor]
           ELSE ReadDescriptors(buf, cursor + 8, remaining - 1,
                                Append(acc, [type |-> TAG_TO_TYPE[typeTag + 1],
                                             byteLen |-> byteLen]))

\* one column block -> typed views; a typed-array constructor throws a
\* RangeError when the byte length is no multiple of the element size
ParseColumn(type, slice, rowCount) ==
  IF type = "utf8"
  THEN LET offsetByteLen == (rowCount + 1) * 4
           offs          == Slice(slice, 0, offsetByteLen)
       IN  IF Len(offs) % 4 # 0 THEN ParseFail("RangeError")
           ELSE [ok |-> TRUE, err |-> "",
                 col |-> [ParsedCol(type) EXCEPT
                            !.utf8Offsets = Uint32ArrayOf(offs),
                            !.utf8Bytes   = Slice(slice, offsetByteLen, Len(slice))]]
  ELSE IF type = "list_utf8"
  THEN IF ~CanGetUint32(slice, 0) THEN ParseFail("RangeError")
       ELSE LET listTotalItems == GetUint32(slice, 0)
                off1    == 4
                rowB    == Slice(slice, off1, off1 + (rowCount + 1) * 4)
                off2    == off1 + (rowCount + 1) * 4
                itemB   == Slice(slice, off2, off2 + (listTotalItems + 1) * 4)
                off3    == off2 + (listTotalItems + 1) * 4
            IN  IF Len(rowB) % 4 # 0 \/ Len(itemB) % 4 # 0 THEN ParseFail("RangeError")
                ELSE [ok |-> TRUE, err |-> "",
                      col |-> [ParsedCol(type) EXCEPT
                                 !.listTotalItems  = listTotalItems,
                                 !.listRowOffsets  = Uint32ArrayOf(rowB),
                                 !.listItemOffsets = Uint32ArrayOf(itemB),
                                 !.listBytes       = Slice(slice, off3, Len(slice))]]
  ELSE IF Len(slice) % ElemSize(type) # 0 THEN ParseFail("RangeError")
       ELSE [ok |-> TRUE, err |-> "",
             col |-> [ParsedCol(type) EXCEPT
                        !.hasData = TRUE,
                        !.data    = TypedArrayOf(slice, ElemSize(type))]]

\* the column loop: each block is buffer.slice(cursor, cursor + byteLen)
RECURSIVE ParseColumns(_, _, _, _, _)
RECURSIVE ParseColumnsPush(_, _, _, _, _, _)
ParseColumns(buf, cursor, descriptors, rowCount, acc) ==
  IF descriptors = <<>> THEN [ok |-> TRUE, err |-> "", columns |-> acc]
  ELSE ParseColumnsPush(buf, cursor, descriptors, rowCount, acc,
         ParseColumn(Head(descriptors).type,
                     Slice(buf, cursor, cursor + Head(descriptors).byteLen), rowCount))

\* columns.push(...) of the parsed block pc, or the throw of its parse
ParseColumnsPush(buf, cursor, descriptors, rowCount, acc, pc) ==
  IF ~pc.ok THEN [ok |-> FALSE, err |-> pc.err, columns |-> acc]
  ELSE ParseColumns(buf, cursor + Head(descriptors).byteLen, Tail(descriptors), rowCount,
                    Append(acc, pc.col))

\* the return of parseBatch once the column loop cs has run
ParsedBatch(seq, rowCount, cs) ==
  IF ~cs.ok THEN ParseFail(cs.err)
  ELSE [ok |-> TRUE, err |-> "", seq |-> seq, rowCount |-> rowCount,
        columns |-> cs.columns]

\* parseBatch after the header, given the outcome ds of the descriptor loop
ParseBlocks(buffer, seq, rowCount, ds) ==
  IF ~ds.ok THEN ParseFail(ds.err)
  ELSE ParsedBatch(seq, rowCount,
                   ParseColumns(buffer, ds.cursor, ds.descriptors, rowCount, <<>>))

\* parseBatch(buffer): [ok |-> FALSE, err] is a throw
parseBatch(buffer) ==
  IF ~CanGetUint32(buffer, 0) THEN ParseFail("RangeError")
  ELSE IF SubSeq(buffer, 1, 4) # BATCH_MAGIC THEN ParseFail("Invalid batch magic")
  ELSE IF ~CanGetUint32(buffer, 12) THEN ParseFail("RangeError")
  ELSE ParseBlocks(buffer, GetUint32(buffer, 4), GetUint32(buffer, 8),
                   ReadDescriptors(buffer, 16, GetUint32(buffer, 12), <<>>))

\* ------------------------------------------------------------------------
\* data-worker.ts: growable columnar storage.  A column is the live prefix of
\* its typed arrays: length = Len(buf), offsetLen = Len(offsets),
\* bytesLen = Len(bytes), and so on.

NumericColumn(colType) == [kind |-> "numeric", colType |-> colType, buf |-> <<>>]

Utf8Column == [kind |-> "utf8", offsets |-> <<0>>, bytes |-> <<>>]

ListUtf8Column ==
  [kind |-> "list_utf8", rowOffsets |-> <<0>>, itemOffsets |-> <<0>>, bytes |-> <<>>]

\* the rowCount getter of the three column classes
ColRowCount(col) ==
  CASE col.kind = "numeric"   -> Len(col.buf)
    [] col.kind = "utf8"      -> Len(col.offsets) - 1
    [] col.kind = "list_utf8" -> Len(col.rowOffsets) - 1

\* bytes.set(src.subarray(0, added), bytesLen); bytesLen += added: what src
\* does not supply stays zero
AppendBytes(bytes, src, added) ==
  LET copied == ArrSlice(src, 0, added)
  IN  bytes \o copied \o Zeros(added - Len(copied))

\* base + src[i] stored into a Uint32Array: a read past the end of src is
\* undefined, the sum is NaN, and NaN is stored as 0
RebasedAt(base, src, i) == IF i < Len(src) THEN base + src[i + 1] ELSE 0

NumericAppend(col, src) == [col EXCEPT !.buf = col.buf \o src]

Utf8Append(col, srcOffsets, srcBytes, rowCount) ==
  LET addedBytes   == srcOffsets[rowCount + 1]
      baseAbsolute == col.offsets[Len(col.offsets)]
  IN  [col EXCEPT
         !.bytes   = AppendBytes(col.bytes, srcBytes, addedBytes),
         !.offsets = col.offsets \o
                       [i \in 1..rowCount |-> RebasedAt(baseAbsolute, srcOffsets, i)]]

ListUtf8Append(col, totalItems, srcRowOff, srcItemOff, srcBytes, rowCount) ==
  LET baseItemIdx  == Len(col.itemOffsets) - 1
      baseBytesLen == Len(col.bytes)
      addedBytes   == IF totalItems > 0 THEN srcItemOff[totalItems + 1] ELSE 0
  IN  [col EXCEPT
         !.bytes       = AppendBytes(col.bytes, srcBytes, addedBytes),
         !.itemOffsets = col.itemOffsets \o
                           [j \in 1..totalItems |-> RebasedAt(baseBytesLen, srcItemOff, j)],
         !.rowOffsets  = col.rowOffsets \o
                           [r \in 1..rowCount |-> RebasedAt(baseItemIdx, srcRowOff, r)]]

\* copySlice of each class: the sub-buffers, already as bytes (.buffer)
NumericCopySlice(col, startRow, count) ==
  LET end    == Min(startRow + count, Len(col.buf))
      actual == Max(0, end - startRow)
  IN  <<Flatten(ArrSlice(col.buf, startRow, startRow + actual))>>

Utf8CopySlice(col, startRow, count) ==
  LET end     == Min(startRow + count, ColRowCount(col))
      actual  == Max(0, end - startRow)
      base    == StoreAt(col.offsets, startRow)
      limit   == StoreAt(col.offsets, startRow + actual)
      byteLen == limit - base
      newOffsets == [i \in 1..(actual + 1) |->
                       StoreAt(col.offsets, startRow + i - 1) - base]
  IN  <<Uint32Bytes(newOffsets), ArrSlice(col.bytes, base, base + byteLen)>>

ListUtf8CopySlice(col, startRow, count) ==
  LET end         == Min(startRow + count, ColRowCount(col))
      actual      == Max(0, end - startRow)
      baseItemIdx == StoreAt(col.rowOffsets, startRow)
      endItemIdx  == StoreAt(col.rowOffsets, startRow + actual)
      sliceItems  == endItemIdx - baseItemIdx
      baseByteIdx == IF sliceItems > 0 THEN StoreAt(col.itemOffsets, baseItemIdx) ELSE 0
      endByteIdx  == IF sliceItems > 0 THEN StoreAt(col.itemOffsets, endItemIdx) ELSE 0
      newRowOffsets  == [r \in 1..(actual + 1) |->
                           StoreAt(col.rowOffsets, startRow + r - 1) - baseItemIdx]
      newItemOffsets == [j \in 1..(sliceItems + 1) |->
                           StoreAt(col.itemOffsets, baseItemIdx + j - 1) - baseByteIdx]
  IN  <<SetUint32(sliceItems), Uint32Bytes(newRowOffsets), Uint32Bytes(newItemOffsets),
        ArrSlice(col.bytes, baseByteIdx, endByteIdx)>>

CopySlice(col, startRow, count) ==
  CASE col.kind = "list_utf8" -> ListUtf8CopySlice(col, startRow, count)
    [] col.kind = "utf8"      -> Utf8CopySlice(col, startRow, count)
    [] col.kind = "numeric"   -> NumericCopySlice(col, startRow, count)

\* ------------------------------------------------------------------------
\* the wire framing shared by packWindowBuffer and encodeRecordBatch:
\* header, one descriptor per column, then the data blocks

PackBuffer(seq, rowCount, colBufs) ==
  LET n == Len(colBufs)
  IN  BATCH_MAGIC \o SetUint32(seq) \o SetUint32(rowCount) \o SetUint32(n)
      \o Flatten([i \in 1..n |->
                    SetUint32(TYPE_TAG[colBufs[i].type])
                    \o SetUint32(SumLen(colBufs[i].bufs))])
      \o Flatten([i \in 1..n |-> Flatten(colBufs[i].bufs)])

packWindowBuffer(columns, schema, startRow, rowCount, seq) ==
  PackBuffer(seq, rowCount,
             [i \in 1..Len(columns) |->
                [type |-> schema[i].type,
                 bufs |-> CopySlice(columns[i], startRow, rowCount)]])

\* ------------------------------------------------------------------------
\* encode-record-batch.ts: encodeRecordBatch.  A row is the tuple of its
\* values in schema order (r[col.name]); strings are their UTF-8 bytes.

RECURSIVE EndOffsets(_, _)
\* the running end offsets of a sequence of byte strings, after `base`
EndOffsets(strs, base) ==
  IF strs = <<>> THEN <<>>
  ELSE <<base + Len(Head(strs))>> \o EndOffsets(Tail(strs), base + Len(Head(strs)))

RECURSIVE EndCounts(_, _)
\* the running item counts of a sequence of lists, after `base`
EndCounts(lists, base) ==
  IF lists = <<>> THEN <<>>
  ELSE <<base + Len(Head(lists))>> \o EndCounts(Tail(lists), base + Len(Head(lists)))

\* first pass: the typed buffers of one column
EncodeColumn(type, vals) ==
  CASE type \in {"f64", "timestamp_ms"} -> <<Flatten(vals)>>
    [] type \in {"i32", "u32"} -> <<Flatten([i \in 1..Len(vals) |-> SetUint32(vals[i])])>>
    [] type = "bool" -> <<[i \in 1..Len(vals) |-> IF vals[i] THEN 1 ELSE 0]>>
    [] type = "utf8" ->
         <<Uint32Bytes(<<0>> \o EndOffsets(vals, 0)), Flatten(vals)>>
    [] type = "list_utf8" ->
         LET items == Flatten(vals)
         IN  <<SetUint32(Len(items)),
               Uint32Bytes(<<0>> \o EndCounts(vals, 0)),
               Uint32Bytes(<<0>> \o EndOffsets(items, 0)),
               Flatten(items)>>

encodeRecordBatch(types, rows, seq) ==
  PackBuffer(seq, Len(rows),
             [c \in 1..Len(types) |->
                [type |-> types[c],
                 bufs |-> EncodeColumn(types[c], [r \in 1..Len(rows) |-> rows[r][c]])]])

\* ------------------------------------------------------------------------
\* encode-record-batch.ts: the values of a row and their coercion.  A row is
\* a record of JavaScript values; a property the row lacks reads undefined.
\* A number is kept as its count of halves (5 is 2.5), a string as the
\* sequence of its code points (well-formed strings only).

JsUndefined == [t |-> "undefined", n |-> 0, s |-> <<>>, items |-> <<>>]

JsNull == [t |-> "null", n |-> 0, s |-> <<>>, items |-> <<>>]

JsNumber(halves) == [t |-> "number", n |-> halves, s |-> <<>>, items |-> <<>>]

JsBoolean(b) == [t |-> "boolean", n |-> IF b THEN 1 ELSE 0, s |-> <<>>, items |-> <<>>]

JsString(codePoints) == [t |-> "string", n |-> 0, s |-> codePoints, items |-> <<>>]

\* an array of strings
JsArray(strings) == [t |-> "array", n |-> 0, s |-> <<>>, items |-> strings]

\* r[col.name]
Prop(row, name) == IF name \in DOMAIN row THEN row[name] ELSE JsUndefined

\* Number(v ?? 0) for undefined, null, numbers and booleans, in halves
NumberOrZero(v) ==
  CASE v.t \in {"undefined", "null"} -> 0
    [] v.t = "number"  -> v.n
    [] v.t = "boolean" -> 2 * v.n

\* rounding toward minus infinity instead of toward zero
MathFloor(halves) == halves \div 2

\* Math.trunc of a number given in halves
MathTrunc(halves) == IF halves >= 0 THEN halves \div 2 ELSE -((-halves) \div 2)

\* v ? 1 : 0
Truthy(v) ==
  CASE v.t \in {"undefined", "null"} -> FALSE
    [] v.t \in {"number", "boolean"}  -> v.n # 0
    [] v.t = "string" -> v.s # <<>>
    [] v.t = "array"  -> TRUE

\* the little-endian bytes a Float64Array holds for a number given in halves
F64Bytes(halves) ==
  CASE halves = 0  -> <<0, 0, 0, 0, 0, 0, 0, 0>>
    [] halves = 1  -> <<0, 0, 0, 0, 0, 0, 224, 63>>
    [] halves = 2  -> <<0, 0, 0, 0, 0, 0, 240, 63>>
    [] halves = 5  -> <<0, 0, 0, 0, 0, 0, 4, 64>>
    [] halves = 7  -> <<0, 0, 0, 0, 0, 0, 12, 64>>
    [] halves = -3 -> <<0, 0, 0, 0, 0, 0, 248, 191>>

\* TextEncoder.encode of one code point below 65536
EncodeCodePoint(cp) ==
  IF cp < 128 THEN <<cp>>
  ELSE IF cp < 2048 THEN <<192 + (cp \div 64), 128 + (cp % 64)>>
  ELSE <<224 + (cp \div 4096), 128 + ((cp \div 64) % 64), 128 + (cp % 64)>>

\* TextEncoder.encode
TextEncode(codePoints) ==
  Flatten([i \in 1..Len(codePoints) |-> EncodeCodePoint(codePoints[i])])

\* the value a column's first pass stores for the row value v
CoerceValue(type, v) ==
  CASE type \in {"f64", "timestamp_ms"} -> F64Bytes(NumberOrZero(v))
    [] type \in {"i32", "u32"} -> MathTrunc(NumberOrZero(v))
    [] type = "bool" -> Truthy(v)
    [] type = "utf8" ->
         IF v.t \in {"undefined", "null"} THEN <<>> ELSE TextEncode(v.s)
    [] type = "list_utf8" ->
         IF v.t = "array" THEN [i \in 1..Len(v.items) |-> TextEncode(v.items[i])]
         ELSE <<>>

\* encodeRecordBatch(schema, rows, seq) on rows of JavaScript values
encodeRows(schema, rows, seq) ==
  encodeRecordBatch([c \in 1..Len(schema) |-> schema[c].type],
                    [r \in 1..Len(rows) |->
                       [c \in 1..Len(schema) |->
                          CoerceValue(schema[c].type, Prop(rows[r], schema[c].name))]],
                    seq)

\* ------------------------------------------------------------------------
\* the values a consumer reads back from typed arrays and a TextDecoder

\* the number, in halves, whose Float64Array bytes are given
F64Halves(bytes) == CHOOSE h \in {0, 1, 2, 5, 7, -3} : F64Bytes(h) = bytes

\* an Int32Array element from its four little-endian bytes
GetInt32(bytes) ==
  bytes[1] + 256 * bytes[2] + 65536 * bytes[3]
  + 16777216 * (IF bytes[4] >= 128 THEN bytes[4] - 256 ELSE bytes[4])

RECURSIVE TextDecode(_)
\* TextDecoder.decode of well-formed UTF-8 of code points below 65536
TextDecode(bytes) ==
  IF bytes = <<>> THEN <<>>
  ELSE IF bytes[1] < 128 THEN <<bytes[1]>> \o TextDecode(SubSeq(bytes, 2, Len(bytes)))
  ELSE IF bytes[1] < 224
  THEN <<(bytes[1] - 192) * 64 + (bytes[2] - 128)>> \o TextDecode(SubSeq(bytes, 3, Len(bytes)))
  ELSE <<(bytes[1] - 224) * 4096 + (bytes[2] - 128) * 64 + (bytes[3] - 128)>>
       \o TextDecode(SubSeq(bytes, 4, Len(bytes)))

\* ------------------------------------------------------------------------
\* encode-record-batch.ts: createRecordBatchStream.  enqueued are the buffers
\* handed to controller.enqueue, queue those not yet read, received those a
\* reader has got; source are the row batches the source has yielded and
\* passed the seq arguments given to encodeRecordBatch.

NoStream ==
  [state |-> "none", schema |-> <<>>, seq |-> 0, enqueued |-> <<>>, queue |-> <<>>,
   received |-> <<>>, source |-> <<>>, passed |-> <<>>]

\* the stream after createRecordBatchStream(schema, batches): start() runs
createRecordBatchStream(schema) == [NoStream EXCEPT !.state = "readable", !.schema = schema]

\* a loop body that encodes every batch with seq 0
EnqueueBatchSeqZero(st, rows) ==
  [st EXCEPT !.enqueued = Append(@, encodeRows(st.schema, rows, 0)),
             !.queue    = Append(@, encodeRows(st.schema, rows, 0)),
             !.source   = Append(@, rows),
             !.passed   = Append(@, 0)]

\* the loop body: controller.enqueue(encodeRecordBatch(schema, rows, seq++))
EnqueueBatch(st, rows) ==
  [st EXCEPT !.enqueued = Append(@, encodeRows(st.schema, rows, st.seq)),
             !.queue    = Append(@, encodeRows(st.schema, rows, st.seq)),
             !.seq      = @ + 1,
             !.source   = Append(@, rows),
             !.passed   = Append(@, st.seq)]

\* controller.close(): the queued buffers can still be read
StreamClose(st) == [st EXCEPT !.state = "closed"]

\* controller.error(e): the queue is reset
StreamError(st) == [st EXCEPT !.state = "errored", !.queue = <<>>]

\* reader.read() that yields a buffer
StreamShift(st) == [st EXCEPT !.queue = Tail(@), !.received = Append(@, Head(st.queue))]

\* ------------------------------------------------------------------------
\* data-worker.ts: the storage of a NumericColumn and of the window buffers.
\* cells are the typed arrays and ArrayBuffers allocated so far, each named
\* by its index; buf and length are the column's fields; windows are the
\* buffers handed to the consumer, each with the column length at its emit.
\* The first cell is the array the constructor allocates.

ColumnCapacity == 2

NewHeap ==
  [cells |-> <<Zeros(ColumnCapacity)>>, buf |-> 1, length |-> 0, windows |-> <<>>,
   writes |-> 0]

\* new TypedArray / new ArrayBuffer / slice(): a cell of its own
Alloc(h, contents) == [h EXCEPT !.cells = Append(@, contents)]

\* NumericColumn.append(src): grows into a new array when src does not fit
ColumnBufAppend(h, src) ==
  LET needed == h.length + Len(src)
      cap    == Len(h.cells[h.buf])
      grown  == IF needed > cap
                THEN [Alloc(h, SubSeq(h.cells[h.buf], 1, h.length)
                                 \o Zeros(Max(cap * 2, needed) - h.length))
                        EXCEPT !.buf = Len(h.cells) + 1]
                ELSE h
  IN  [grown EXCEPT
         !.cells[grown.buf] = [i \in 1..Len(@) |->
                                 IF i > h.length /\ i <= needed THEN src[i - h.length]
                                 ELSE @[i]],
         !.length = needed]

\* NumericColumn.copySlice(startRow, count): this.buf.slice(..).buffer, the
\* last cell of the result
ColumnBufCopySlice(h, startRow, count) ==
  LET actual == Max(0, Min(startRow + count, h.length) - startRow)
  IN  Alloc(h, SubSeq(h.cells[h.buf], startRow + 1, startRow + actual))

\* a window that is the column's own array
PackWindowOfColumnBuffer(h, startRow, rowCount) ==
  [h EXCEPT !.windows = Append(@, [id |-> h.buf, at |-> h.length])]

\* packWindowBuffer for the column and flushWindow's emit: the slice is
\* copied into out, a new ArrayBuffer, which is transferred to the consumer
PackWindow(h, startRow, rowCount) ==
  LET sliced == ColumnBufCopySlice(h, startRow, rowCount)
      out    == Alloc(sliced, sliced.cells[Len(sliced.cells)])
  IN  [out EXCEPT !.windows = Append(@, [id |-> Len(out.cells), at |-> h.length])]

\* the consumer stores v at index i of the window buffer w it owns
ConsumerStore(h, w, i, v) ==
  [h EXCEPT !.cells[h.windows[w].id][i] = v, !.writes = @ + 1]

\* the rows the column holds
ColumnRows(h) == SubSeq(h.cells[h.buf], 1, h.length)

\* ------------------------------------------------------------------------
\* primitives/use-presence.ts: usePresence(show) in a component.  state holds
\* the two useState cells, queue the setState calls not yet rendered, view
\* what the last committed render saw and returned (the effect and the
\* onAnimationEnd callback are closures over it), effect whether the effect
\* of that render has still to run.

NoPresence ==
  [live |-> FALSE, show |-> FALSE, state |-> [mounted |-> FALSE, phase |-> "exiting"],
   queue |-> <<>>, view |-> [show |-> FALSE, mounted |-> FALSE, phase |-> "exiting"],
   effect |-> FALSE, ops |-> 0]

\* the state cells after the queued setState calls, in call order
RECURSIVE ApplyUpdates(_, _)
ApplyUpdates(state, queue) ==
  IF queue = <<>> THEN state
  ELSE ApplyUpdates([state EXCEPT ![Head(queue).cell] = Head(queue).value], Tail(queue))

SetMounted(value) == [cell |-> "mounted", value |-> value]

SetPhase(value) == [cell |-> "phase", value |-> value]

\* the first render: useState(show), useState(show ? "entered" : "exiting")
PresenceFirstRender(show) ==
  [live |-> TRUE, show |-> show,
   state |-> [mounted |-> show, phase |-> IF show THEN "entered" ELSE "exiting"],
   queue |-> <<>>,
   view |-> [show |-> show, mounted |-> show,
             phase |-> IF show THEN "entered" ELSE "exiting"],
   effect |-> TRUE, ops |-> 0]

\* a later render with the prop show; the effect is due when show changed
PresenceRender(p, show) ==
  LET state == ApplyUpdates(p.state, p.queue)
  IN  [p EXCEPT !.show = show, !.state = state, !.queue = <<>>,
                !.view = [show |-> show, mounted |-> state.mounted, phase |-> state.phase],
                !.effect = (show # p.view.show)]

\* the body of the useEffect, over the values of the render it belongs to
PresenceEffect(p) ==
  [p EXCEPT !.effect = FALSE,
            !.queue = IF p.view.show
                      THEN p.queue \o <<SetMounted(TRUE), SetPhase("entering")>>
                      ELSE IF p.view.mounted THEN Append(p.queue, SetPhase("exiting"))
                      ELSE p.queue]

\* onAnimationEnd(e), own saying that e.target is e.currentTarget
onAnimationEnd(p, own) ==
  IF ~own THEN p
  ELSE [p EXCEPT
          !.queue = IF p.view.phase = "entering" THEN Append(p.queue, SetPhase("entered"))
                    ELSE IF p.view.phase = "exiting"
                    THEN Append(p.queue, SetMounted(FALSE))
                    ELSE p.queue]

\* ------------------------------------------------------------------------
\* components/use-warmup-exit.ts: useWarmupExit(loading, duration) in a
\* component.  exiting is the useState cell, queue the setExiting calls not yet
\* rendered, prevLoading the ref, timer the pending setTimeout (<<>> for none,
\* else its delay), cleanup whether the last effect returned a clearTimeout,
\* view what the last committed render saw and returned.

NoWarmup ==
  [live |-> FALSE, loading |-> FALSE, duration |-> 0, exiting |-> FALSE, queue |-> <<>>,
   prevLoading |-> FALSE, timer |-> <<>>, cleanup |-> FALSE,
   view |-> [loading |-> FALSE, duration |-> 0, exiting |-> FALSE, showWarmup |-> FALSE],
   effect |-> FALSE, ops |-> 0]

\* what the hook returns for the props and the state of a render
WarmupView(loading, duration, exiting) ==
  [loading |-> loading, duration |-> duration, exiting |-> exiting,
   showWarmup |-> (loading \/ exiting)]

\* the first render: useState(false), useRef(loading)
WarmupFirstRender(loading, duration) ==
  [NoWarmup EXCEPT !.live = TRUE, !.loading = loading, !.duration = duration,
                   !.prevLoading = loading,
                   !.view = WarmupView(loading, duration, FALSE), !.effect = TRUE]

\* a later render; the effect is due when loading or duration changed
WarmupRender(u, loading, duration) ==
  LET exiting == IF u.queue = <<>> THEN u.exiting ELSE u.queue[Len(u.queue)]
  IN  [u EXCEPT !.loading = loading, !.duration = duration, !.exiting = exiting,
                !.queue = <<>>,
                !.view = WarmupView(loading, duration, exiting),
                !.effect = (loading # u.view.loading \/ duration # u.view.duration)]

\* the effect: the cleanup the effect before it returned, then its body
WarmupEffect(u) ==
  LET cleaned == IF u.cleanup THEN [u EXCEPT !.timer = <<>>] ELSE u
  IN  IF cleaned.prevLoading /\ ~cleaned.view.loading
      THEN [cleaned EXCEPT !.effect = FALSE, !.queue = Append(cleaned.queue, TRUE),
                           !.timer = <<cleaned.view.duration>>,
                           !.prevLoading = cleaned.view.loading, !.cleanup = TRUE]
      ELSE [cleaned EXCEPT !.effect = FALSE, !.prevLoading = cleaned.view.loading,
                           !.cleanup = FALSE]

\* the timeout callback: setExiting(false)
WarmupTimeout(u) == [u EXCEPT !.timer = <<>>, !.queue = Append(u.queue, FALSE)]

\* ------------------------------------------------------------------------
\* use-stable-slot.ts: useStableSlot({axis}) in a component.  style is the
\* useState cell (<<>> for a property that is not set), queue the setStyle
\* calls not yet rendered, max the maxRef, observing whether observerRef
\* holds a connected observer, ignored the entries that set nothing.

NoStyle == [minWidth |-> <<>>, minHeight |-> <<>>]

NoSlot ==
  [live |-> FALSE, axis |-> "both", style |-> NoStyle, queue |-> <<>>,
   max |-> [w |-> 0, h |-> 0], observing |-> FALSE, ignored |-> 0, ops |-> 0]

\* the first render: useState({}), useRef({w: 0, h: 0}), useRef(null)
SlotFirstRender(axis) == [NoSlot EXCEPT !.live = TRUE, !.axis = axis]

\* the ref callback: disconnects the observer it holds, observes el if any
SlotRef(sl, el) == [sl EXCEPT !.observing = el]

TracksWidth(axis) == axis \in {"width", "both"}

TracksHeight(axis) == axis \in {"height", "both"}

\* a loop body that takes every observed size as the new maximum
SlotEntryLastSize(sl, entry) ==
  [sl EXCEPT !.max = [w |-> IF TracksWidth(sl.axis) THEN entry.w ELSE sl.max.w,
                      h |-> IF TracksHeight(sl.axis) THEN entry.h ELSE sl.max.h],
             !.queue = Append(sl.queue,
                         [minWidth  |-> IF TracksWidth(sl.axis) THEN <<entry.w>> ELSE <<>>,
                          minHeight |-> IF TracksHeight(sl.axis) THEN <<entry.h>> ELSE <<>>])]

\* the body of the observer callback's loop for one entry
SlotEntry(sl, entry) ==
  LET growW == TracksWidth(sl.axis) /\ entry.w > sl.max.w
      growH == TracksHeight(sl.axis) /\ entry.h > sl.max.h
      max   == [w |-> IF growW THEN entry.w ELSE sl.max.w,
                h |-> IF growH THEN entry.h ELSE sl.max.h]
  IN  IF growW \/ growH
      THEN [sl EXCEPT !.max = max,
                      !.queue = Append(sl.queue,
                                  [minWidth  |-> IF TracksWidth(sl.axis) THEN <<max.w>>
                                                 ELSE <<>>,
                                   minHeight |-> IF TracksHeight(sl.axis) THEN <<max.h>>
                                                 ELSE <<>>])]
      ELSE [sl EXCEPT !.ignored = @ + 1]

\* the observer callback: for (const entry of entries)
RECURSIVE SlotEntries(_, _)
SlotEntries(sl, entries) ==
  IF entries = <<>> THEN sl ELSE SlotEntries(SlotEntry(sl, Head(entries)), Tail(entries))

\* a later render: the style of the last setStyle call
SlotRender(sl) ==
  [sl EXCEPT !.style = IF sl.queue = <<>> THEN sl.style ELSE sl.queue[Len(sl.queue)],
             !.queue = <<>>]

\* ------------------------------------------------------------------------
\* virtual-chamber.ts: RowProxy.get over a parsed column (buildAccessors reads
\* the window exactly as parseBatch does); a string is kept as its bytes

\* bytes.subarray(offsets[i], offsets[i + 1]): an index past the end of
\* offsets reads undefined, which subarray takes as 0 for its begin and as
\* the length for its end
SubarrayAt(bytes, offsets, i) ==
  ArrSlice(bytes,
           IF i < Len(offsets) THEN offsets[i + 1] ELSE 0,
           IF i + 1 < Len(offsets) THEN offsets[i + 2] ELSE Len(bytes))

\* the item loop runs from rowOffsets[localRow] up to rowOffsets[localRow + 1]
\* and not at all when either is undefined
RowValue(acc, localRow) ==
  IF acc.type = "utf8" THEN SubarrayAt(acc.utf8Bytes, acc.utf8Offsets, localRow)
  ELSE IF acc.type = "list_utf8"
  THEN IF localRow + 1 >= Len(acc.listRowOffsets) THEN <<>>
       ELSE LET startItem == acc.listRowOffsets[localRow + 1]
                endItem   == acc.listRowOffsets[localRow + 2]
            IN  [j \in 1..(endItem - startItem) |->
                   SubarrayAt(acc.listBytes, acc.listItemOffsets, startItem + j - 1)]
  ELSE IF acc.type = "bool" THEN acc.data[localRow + 1] # <<0>>
  ELSE acc.data[localRow + 1]

\* the rows of a parsed buffer, each the tuple of its column values
DecodeRows(batch) ==
  [r \in 1..batch.rowCount |->
     [c \in 1..Len(batch.columns) |-> RowValue(batch.columns[c], r - 1)]]

\* ------------------------------------------------------------------------
\* data-worker.ts: RingBuffer and BackpressureController

RING_CAPACITY == 8

MIN_SAMPLES == 4

SHED_MS == 28

BUFFER_MS == 14

RingBuffer == [data |-> Zeros(RING_CAPACITY), head |-> 0, count |-> 0]

\* a ring that takes no sample once it is full
RingPushKeepOldest(h, value) ==
  IF h.count < RING_CAPACITY
  THEN [data  |-> [h.data EXCEPT ![h.head + 1] = value],
        head  |-> (h.head + 1) % RING_CAPACITY,
        count |-> h.count + 1]
  ELSE h

RingPush(h, value) ==
  [data  |-> [h.data EXCEPT ![h.head + 1] = value],
   head  |-> (h.head + 1) % RING_CAPACITY,
   count |-> IF h.count < RING_CAPACITY THEN h.count + 1 ELSE h.count]

RECURSIVE SumSeq(_)
SumSeq(xs) == IF xs = <<>> THEN 0 ELSE Head(xs) + SumSeq(Tail(xs))

\* mean(): sum / count, kept as the fraction; 0 when there is no sample
RingMean(h) ==
  IF h.count = 0 THEN [sum |-> 0, count |-> 1]
  ELSE [sum |-> SumSeq(SubSeq(h.data, 1, h.count)), count |-> h.count]

\* avg > t for the fraction avg
MeanAbove(avg, t) == avg.sum > t * avg.count

BackpressureController == [history |-> RingBuffer, strategy |-> "NOMINAL"]

\* record(renderMs) that returns the strategy on every classified sample
BpRecordEverySample(bp, renderMs) ==
  LET history == RingPush(bp.history, renderMs)
      avg     == RingMean(history)
      next    == IF MeanAbove(avg, SHED_MS) THEN "SHED"
                 ELSE IF MeanAbove(avg, BUFFER_MS) THEN "BUFFER"
                 ELSE "NOMINAL"
  IN  IF history.count < MIN_SAMPLES
      THEN [bp |-> [bp EXCEPT !.history = history], changed |-> "null"]
      ELSE [bp |-> [history |-> history, strategy |-> next], changed |-> next]

\* record(renderMs): [bp |-> the controller after the call, changed |-> the
\* returned strategy, "null" for null]
BpRecord(bp, renderMs) ==
  LET history == RingPush(bp.history, renderMs)
      avg     == RingMean(history)
      next    == IF MeanAbove(avg, SHED_MS) THEN "SHED"
                 ELSE IF MeanAbove(avg, BUFFER_MS) THEN "BUFFER"
                 ELSE "NOMINAL"
  IN  IF history.count < MIN_SAMPLES
      THEN [bp |-> [bp EXCEPT !.history = history], changed |-> "null"]
      ELSE IF next = bp.strategy
      THEN [bp |-> [bp EXCEPT !.history = history], changed |-> "null"]
      ELSE [bp |-> [history |-> history, strategy |-> next], changed |-> next]

\* ------------------------------------------------------------------------
\* data-worker.ts: resolveLayout

\* Math.ceil(a / b) for positive b
CeilDiv(a, b) == (a + b - 1) \div b

\* a ColumnSchema without fixedWidth
ColumnSchema(name, type, maxContentChars) ==
  [name |-> name, type |-> type, maxContentChars |-> maxContentChars, fixedWidth |-> <<>>]

resolveLayout(schema, charWidthHint, rowHeightHint, totalRows, viewportHeight) ==
  [columns |->
     [i \in 1..Len(schema) |->
        [name            |-> schema[i].name,
         type            |-> schema[i].type,
         maxContentChars |-> schema[i].maxContentChars,
         fixedWidth      |-> schema[i].fixedWidth,
         computedWidth   |->
           IF schema[i].fixedWidth # <<>> THEN schema[i].fixedWidth[1]
           ELSE schema[i].maxContentChars * charWidthHint + CELL_H_PADDING * 2,
         columnIndex     |-> i - 1]],
   rowHeight    |-> rowHeightHint,
   totalRows    |-> totalRows,
   totalHeight  |-> totalRows * rowHeightHint,
   viewportRows |-> CeilDiv(viewportHeight, rowHeightHint) + 1]

\* ------------------------------------------------------------------------
\* data-worker.ts: DataWorkerCore.  A handler maps w = [c |-> the core's
\* fields, out |-> the events posted so far by this handler] to the same
\* after the call.  layout is <<>> for null, <<l>> otherwise.

MAX_QUEUE_DEPTH == 64

DataWorkerCore ==
  [schema |-> <<>>, columns |-> <<>>, charWidthHint |-> 8, rowHeightHint |-> 32,
   viewportHeight |-> 600, totalRows |-> 0, windowStart |-> 0, windowCount |-> 0,
   layout |-> <<>>, seqCounter |-> 0, bp |-> BackpressureController,
   queue |-> <<>>, processing |-> FALSE]

emit(w, event) == [w EXCEPT !.out = Append(w.out, event)]

NewColumn(type) ==
  CASE type = "utf8"      -> Utf8Column
    [] type = "list_utf8" -> ListUtf8Column
    [] OTHER              -> NumericColumn(type)

init(w, cmd) ==
  LET layout == resolveLayout(cmd.schema, cmd.charWidthHint, cmd.rowHeightHint, 0,
                              cmd.viewportHeight)
      c1 == [w.c EXCEPT
               !.charWidthHint  = cmd.charWidthHint,
               !.rowHeightHint  = cmd.rowHeightHint,
               !.viewportHeight = cmd.viewportHeight,
               !.columns        = [i \in 1..Len(cmd.schema) |-> NewColumn(cmd.schema[i].type)],
               !.layout         = <<layout>>,
               !.schema         = layout.columns,
               !.windowCount    = layout.viewportRows]
  IN  emit([w EXCEPT !.c = c1], [type |-> "LAYOUT_READY", layout |-> layout])

\* a rebuild that resolves the layout for an empty store, as init does
rebuildLayoutNoRows(w) ==
  LET layout == resolveLayout(w.c.schema, w.c.charWidthHint, w.c.rowHeightHint,
                              0, w.c.viewportHeight)
  IN  [w EXCEPT !.c.layout = <<layout>>, !.c.schema = layout.columns]

rebuildLayout(w) ==
  LET layout == resolveLayout(w.c.schema, w.c.charWidthHint, w.c.rowHeightHint,
                              w.c.totalRows, w.c.viewportHeight)
  IN  [w EXCEPT !.c.layout = <<layout>>, !.c.schema = layout.columns]

\* packWindowBuffer throws: ListUtf8Column.copySlice asks for a Uint32Array of
\* negative length when the row offsets of the slice run backwards
PackThrows(columns, startRow, rowCount) ==
  \E i \in 1..Len(columns) :
     /\ columns[i].kind = "list_utf8"
     /\ LET end    == Min(startRow + rowCount, ColRowCount(columns[i]))
            actual == Max(0, end - startRow)
        IN  StoreAt(columns[i].rowOffsets, startRow + actual)
              - StoreAt(columns[i].rowOffsets, startRow) + 1 < 0

\* flushWindow that stamps the window with seqCounter and leaves it as it is
flushWindowSameSeq(w) ==
  IF w.c.layout = <<>> \/ w.c.totalRows = 0 \/ w.c.windowCount = 0 THEN w
  ELSE LET start == Max(0, Min(w.c.windowStart, w.c.totalRows - 1))
           count == Min(w.c.windowCount, w.c.totalRows - start)
       IN  IF count <= 0 THEN w
           ELSE IF PackThrows(w.c.columns, start, count) THEN w
           ELSE emit(w, [type |-> "WINDOW_UPDATE",
                         window |->
                           [seq |-> w.c.seqCounter, startRow |-> start, rowCount |-> count,
                            layout |-> w.c.layout[1],
                            buffer |-> packWindowBuffer(w.c.columns, w.c.schema, start,
                                                        count, w.c.seqCounter)]])

flushWindow(w) ==
  IF w.c.layout = <<>> \/ w.c.totalRows = 0 \/ w.c.windowCount = 0 THEN w
  ELSE LET start == Max(0, Min(w.c.windowStart, w.c.totalRows - 1))
           count == Min(w.c.windowCount, w.c.totalRows - start)
       IN  IF count <= 0 THEN w
           ELSE IF PackThrows(w.c.columns, start, count)
           THEN [w EXCEPT !.c.seqCounter = @ + 1]
           ELSE LET seq == w.c.seqCounter
                    buffer == packWindowBuffer(w.c.columns, w.c.schema, start, count, seq)
                    win == [seq |-> seq, startRow |-> start, rowCount |-> count,
                            layout |-> w.c.layout[1], buffer |-> buffer]
                IN  emit([w EXCEPT !.c.seqCounter = seq + 1],
                         [type |-> "WINDOW_UPDATE", window |-> win])

scheduleProcess(w) == IF w.c.processing THEN w ELSE [w EXCEPT !.c.processing = TRUE]

\* an ingest that puts the command at the head of the queue
ingestAtHead(w, cmd) ==
  LET kept == IF w.c.bp.strategy = "SHED" /\ Len(w.c.queue) >= MAX_QUEUE_DEPTH
              THEN Tail(w.c.queue) ELSE w.c.queue
  IN  scheduleProcess([w EXCEPT
        !.c.queue = <<[buffer |-> cmd.buffer, seq |-> cmd.seq]>> \o kept])

ingest(w, cmd) ==
  LET kept == IF w.c.bp.strategy = "SHED" /\ Len(w.c.queue) >= MAX_QUEUE_DEPTH
              THEN Tail(w.c.queue) ELSE w.c.queue
  IN  scheduleProcess([w EXCEPT
        !.c.queue = Append(kept, [buffer |-> cmd.buffer, seq |-> cmd.seq])])

setWindow(w, cmd) ==
  flushWindow([w EXCEPT !.c.windowStart = cmd.startRow, !.c.windowCount = cmd.rowCount])

resizeViewport(w, cmd) ==
  LET w1 == [w EXCEPT !.c.viewportHeight = cmd.height]
  IN  IF Len(w1.c.schema) > 0 THEN rebuildLayout(w1) ELSE w1

frameAck(w, cmd) ==
  LET r == BpRecord(w.c.bp, cmd.renderMs)
      w1 == [w EXCEPT !.c.bp = r.bp]
  IN  IF r.changed # "null"
      THEN emit(w1, [type |-> "BACKPRESSURE",
                     state |-> [strategy |-> r.changed, queueDepth |-> Len(w1.c.queue),
                                avgRenderMs |-> RingMean(r.bp.history)]])
      ELSE w1

\* ingestBatch without its pre-commit loop
PreCheckSkipped(batch, c) == 0

\* the pre-commit loop: the first column whose wire type differs, 0 for none
PreCheck(batch, c) ==
  LET bad == {i \in 1..Min(Len(batch.columns), Len(c.columns)) :
                batch.columns[i].type # c.schema[i].type}
  IN  IF bad = {} THEN 0 ELSE CHOOSE i \in bad : \A j \in bad : i <= j

\* the append dispatch of the commit loop for one column
AppendColumn(store, col, rowCount) ==
  IF col.type = "list_utf8" /\ store.kind = "list_utf8"
  THEN ListUtf8Append(store, col.listTotalItems, col.listRowOffsets,
                      col.listItemOffsets, col.listBytes, rowCount)
  ELSE IF col.type = "utf8" /\ store.kind = "utf8"
  THEN Utf8Append(store, col.utf8Offsets, col.utf8Bytes, rowCount)
  ELSE IF store.kind = "numeric" /\ col.hasData
  THEN NumericAppend(store, col.data)
  ELSE store

\* ingestBatch without its post-commit loop
PostCheckSkipped(c) == FALSE

\* the post-commit loop: some column disagrees with totalRows
PostCheck(c) == \E i \in 1..Len(c.columns) : ColRowCount(c.columns[i]) # c.totalRows

AckOf(seq) == [type |-> "INGEST_ACK", seq |-> seq]

ErrorOf(seq, message) == [type |-> "INGEST_ERROR", seq |-> seq, message |-> message]

\* the commit loop and totalRows += batch.rowCount
CommitBatch(w, batch) ==
  [w EXCEPT
     !.c.columns =
        [i \in 1..Len(w.c.columns) |->
           IF i <= Len(batch.columns)
           THEN AppendColumn(w.c.columns[i], batch.columns[i], batch.rowCount)
           ELSE w.c.columns[i]],
     !.c.totalRows = w.c.totalRows + batch.rowCount]

\* an ingestBatch that acknowledges a committed batch before it reports the
\* row total
AfterCommitAckFirst(w1, item) ==
  IF PostCheck(w1.c)
  THEN emit(emit(w1, ErrorOf(item.seq, "Integrity violation")), AckOf(item.seq))
  ELSE emit(emit(rebuildLayout(w1), AckOf(item.seq)),
            [type |-> "TOTAL_ROWS_UPDATED", totalRows |-> w1.c.totalRows])

\* ingestBatch from the post-commit check on, w1 the core after the commit
AfterCommit(w1, item) ==
  IF PostCheck(w1.c)
  THEN emit(emit(w1, ErrorOf(item.seq, "Integrity violation")), AckOf(item.seq))
  ELSE emit(emit(rebuildLayout(w1),
                 [type |-> "TOTAL_ROWS_UPDATED", totalRows |-> w1.c.totalRows]),
            AckOf(item.seq))

\* ingestBatch after its try block, batch the outcome of parseBatch
IngestParsed(w, item, batch) ==
  IF ~batch.ok
  THEN emit(emit(w, ErrorOf(item.seq, batch.err)), AckOf(item.seq))
  ELSE IF PreCheck(batch, w.c) # 0
  THEN emit(emit(w, ErrorOf(item.seq, "Schema type mismatch")), AckOf(item.seq))
  ELSE AfterCommit(CommitBatch(w, batch), item)

ingestBatch(w, item) == IngestParsed(w, item, parseBatch(item.buffer))

\* ------------------------------------------------------------------------
\* Observation of the worker: what a handler posted and what each
\* ingestBatch call did to the store.  None of it is read by the handlers.

NonDecreasing(xs) == \A i \in 1..(Len(xs) - 1) : xs[i] <= xs[i + 1]

HasEvent(evs, type) == \E i \in 1..Len(evs) : evs[i].type = type

RowCounts(c) == [i \in 1..Len(c.columns) |-> ColRowCount(c.columns[i])]

\* the record of one ingestBatch call
BatchRecord(before, after, item, evs) ==
  [seq         |-> item.seq,
   buffer      |-> item.buffer,
   schemaTypes |-> [i \in 1..Len(before.schema) |-> before.schema[i].type],
   rowsBefore  |-> RowCounts(before),
   rowsAfter   |-> RowCounts(after),
   totalBefore |-> before.totalRows,
   totalAfter  |-> after.totalRows,
   colsSame    |-> before.columns = after.columns,
   rowsKept    |-> \A i \in 1..Len(before.columns) :
                     CopySlice(after.columns[i], 0, ColRowCount(before.columns[i]))
                       = CopySlice(before.columns[i], 0, ColRowCount(before.columns[i])),
   evs         |-> evs]

\* the rows the store is meant to hold: the rows of the batches committed in
\* full, in ingest order, each read from its buffer as the renderer reads a
\* window; clean is lost once anything but a full commit changed the store
ShadowAfter(shadow, rec) ==
  IF HasEvent(rec.evs, "TOTAL_ROWS_UPDATED")
  THEN [shadow EXCEPT !.rows = shadow.rows \o DecodeRows(parseBatch(rec.buffer))]
  ELSE IF rec.colsSame /\ rec.totalAfter = rec.totalBefore THEN shadow
  ELSE [shadow EXCEPT !.clean = FALSE]

\* processQueue's while loop, each ingestBatch call observed
RECURSIVE DrainQueue(_)
RECURSIVE DrainShifted(_, _, _)
RECURSIVE DrainIngested(_, _, _, _)
RECURSIVE DrainRecorded(_, _, _)
DrainQueue(st) ==
  IF st.w.c.queue = <<>> THEN st
  ELSE DrainShifted(st, Head(st.w.c.queue),
                    [c |-> [st.w.c EXCEPT !.queue = Tail(st.w.c.queue)], out |-> <<>>])

\* this.ingestBatch(this.queue.shift()): w0 the core after the shift
DrainShifted(st, item, w0) == DrainIngested(st, item, w0, ingestBatch(w0, item))

DrainIngested(st, item, w0, w1) ==
  DrainRecorded(st, w1, BatchRecord(w0.c, w1.c, item, w1.out))

DrainRecorded(st, w1, rec) ==
  DrainQueue([w      |-> [c |-> w1.c, out |-> st.w.out \o w1.out],
              log    |-> Append(st.log, rec),
              shadow |-> ShadowAfter(st.shadow, rec)])

\* this.flushWindow() at the end of processQueue
FlushDrained(st) == [st EXCEPT !.w = flushWindow(st.w)]

processQueue(w, shadow) ==
  FlushDrained(DrainQueue([w |-> [w EXCEPT !.c.processing = FALSE], log |-> <<>>,
                           shadow |-> shadow]))

WindowSeqs(evs) ==
  LET wins == SelectSeq(evs, LAMBDA e : e.type = "WINDOW_UPDATE")
  IN  [i \in 1..Len(wins) |-> wins[i].window.seq]

AckSeqs(evs) ==
  LET acks == SelectSeq(evs, LAMBDA e : e.type = "INGEST_ACK")
  IN  [i \in 1..Len(acks) |-> acks[i].seq]

\* ------------------------------------------------------------------------
\* Inputs: the schema given to INIT, and the buffers sent with INGEST

MainSchema ==
  <<ColumnSchema("flag", "bool", 5), ColumnSchema("name", "utf8", 8),
    ColumnSchema("organism_ids", "list_utf8", 36),
    ColumnSchema("organism_names", "list_utf8", 80)>>

MainTypes == [i \in 1..Len(MainSchema) |-> MainSchema[i].type]

\* two rows; "ab", ["a","b"] / ["E","S"] and "", ["c"] / ["B"]
RowsA ==
  << <<TRUE, <<97, 98>>, << <<97>>, <<98>> >>, << <<69>>, <<83>> >> >>,
     <<FALSE, <<>>, << <<99>> >>, << <<66>> >> >> >>

\* one row; "z", [] / []
RowsB == << <<TRUE, <<122>>, <<>>, <<>> >> >>

\* one row whose third value is a string: encoded as utf8 where the store
\* holds a list_utf8 column
RowsM == << <<TRUE, <<122>>, <<120>>, <<>> >> >>

\* one row whose parallel lists differ in length: ["a","b"] / ["E"]
RowsP == << <<FALSE, <<113>>, << <<97>>, <<98>> >>, << <<69>> >> >> >>

BatchA == encodeRecordBatch(MainTypes, RowsA, 7)

BatchB == encodeRecordBatch(MainTypes, RowsB, 7)

BatchP == encodeRecordBatch(MainTypes, RowsP, 7)

BatchEmpty == encodeRecordBatch(MainTypes, <<>>, 7)

\* malformed buffers
BadMagic(buf) == [buf EXCEPT ![1] = 0]

BadTag(buf, col) == [buf EXCEPT ![16 + (col - 1) * 8 + 1] = 7]

Truncate(buf, k) == SubSeq(buf, 1, Len(buf) - k)

InflateLen(buf, col, k) == [buf EXCEPT ![16 + (col - 1) * 8 + 5] = @ + k]

\* a batch of the first column only
BatchFewer == encodeRecordBatch(<<"bool">>, RowsB, 7)

BatchMismatch == encodeRecordBatch(<<"bool", "utf8", "utf8", "list_utf8">>, RowsM, 7)

\* the last column's byteLen extends past the end of the buffer
BatchTruncated == Truncate(BatchA, 1)

BatchInflated == InflateLen(BatchB, 4, 5)

\* the buffer ends inside the row offsets of the last column
BatchShort == Truncate(BatchB, 8)

\* the header declares one row where every block carries the two of BatchA
BatchUndercount == [BatchA EXCEPT ![9] = 1]

\* the buffers sent to the worker: well-formed ones, and one of each defect
ValidInputs == {BatchA, BatchB, BatchP}

FaultyInputs ==
  {BadMagic(BatchB), BadTag(BatchB, 2), BatchTruncated, BatchInflated, BatchShort,
   BatchFewer, BatchMismatch, BatchUndercount}

WireInputs == ValidInputs \cup FaultyInputs

\* SET_WINDOW requests <<startRow, rowCount>>
WindowInputs == {<<0, 0>>, <<1, 2>>, <<3, 4>>}

ResizeHeights == {100}

\* the INIT command the orchestrator posts with its default hints
InitCmds ==
  {[type |-> "INIT", schema |-> MainSchema, charWidthHint |-> 8, rowHeightHint |-> 36,
    viewportHeight |-> 600]}

\* render times reported with FRAME_ACK, and the buffers of a long burst
SlowFrames == {30}

BurstInputs == {BatchEmpty}

\* render times on both thresholds' sides: means of 14, of 28 and above occur
FrameInputs == {14, 42}

\* schemas and rows for the encoder: every column type, a property read by
\* two columns, fractions of either sign, missing and null properties, a
\* non-array in a list column, strings with 1-, 2- and 3-byte characters
EncoderSchemas ==
  { <<ColumnSchema("a", "f64", 8), ColumnSchema("a", "i32", 8),
      ColumnSchema("b", "utf8", 8), ColumnSchema("c", "list_utf8", 8),
      ColumnSchema("d", "bool", 5)>>,
    <<ColumnSchema("d", "bool", 5), ColumnSchema("a", "timestamp_ms", 8),
      ColumnSchema("e", "u32", 8), ColumnSchema("b", "utf8", 8)>> }

EncoderRows ==
  { [a |-> JsNumber(5), b |-> JsString(<<97, 233>>),
     c |-> JsArray(<< <<97>>, <<>>, <<8364>> >>), d |-> JsBoolean(TRUE), e |-> JsNumber(7)],
    [a |-> JsNumber(-3), b |-> JsNull, c |-> JsString(<<97>>), d |-> JsNumber(0)],
    [d |-> JsString(<<97>>), c |-> JsArray(<<>>)] }

\* the row batches a source yields: up to two rows
EncoderBatches ==
  {<<>>} \cup {<<r>> : r \in EncoderRows} \cup {<<r1, r2>> : r1, r2 \in EncoderRows}

\* the buffers a source stream yields to the pump
PumpInputs == {BatchB, BatchFewer}

\* bounds of the model
MaxIngests == 2

MaxCmds == 1

MaxFrames == 4

MaxBurst == 66

MaxSource == 2

MaxSamples == 9

MaxStoreOps == 3

MaxBatches == 2

\* ------------------------------------------------------------------------
\* State

VARIABLES
  core,          \* the DataWorkerCore instance of the worker
  closed,        \* the worker has been closed or terminated
  inited,        \* INIT has reached the worker
  emitted,       \* the events posted by the worker's last handler
  lastBatches,   \* the ingestBatch calls of the worker's last handler
  shadow,        \* the rows the store is meant to hold
  delivered,     \* the seqs of the INGEST commands delivered, in order
  ackLog,        \* the seqs of the INGEST_ACK events posted, in order
  windowLog,     \* the seqs of the WINDOW_UPDATE events posted, in order
  samples,       \* the renderMs of the FRAME_ACK commands delivered, in order
  budget,        \* commands issued so far by the worker's environment
  main,          \* the orchestrator's refs: workerRef, layoutRef, seqRef; the
                 \* ACKs received; the pumps that ran when onerror fired
  toWorker,      \* commands posted to the worker and not yet delivered
  toMain,        \* events posted by the worker and not yet delivered
  store,         \* the AtomicStore state
  ackResolvers,  \* ackResolversRef.current
  pumps,         \* the pumps started by ingest() calls
  atomic,        \* an AtomicStore object on its own: snapshots, listeners
  stream,        \* a stream made by createRecordBatchStream, with its source
  heap,          \* the arrays of a NumericColumn and of its window buffers
  presence,      \* a component that calls usePresence
  warmup,        \* a component that calls useWarmupExit
  slot           \* a component that calls useStableSlot

workerVars ==
  <<core, closed, inited, emitted, lastBatches, shadow, delivered, ackLog, windowLog,
    samples>>

hookVars == <<presence, warmup, slot>>

mainVars == <<main, toWorker, toMain, store, ackResolvers, pumps, atomic, stream, heap, hookVars>>

vars == <<workerVars, budget, mainVars>>

\* ------------------------------------------------------------------------
\* atomic-store.ts: AtomicStore.  null is <<>>, a value v is <<v>>.

INITIAL_STORE_STATE ==
  [status |-> "idle", layout |-> <<>>, window |-> <<>>,
   backpressure |-> [strategy |-> "NOMINAL", queueDepth |-> 0,
                     avgRenderMs |-> [sum |-> 0, count |-> 1]],
   totalRows |-> 0, error |-> <<>>, pitch |-> 0]

\* an error string: `Batch ${seq}: ${message}` has batch = <<seq>>
ErrorText(batch, message) == [batch |-> batch, message |-> message]

\* merge: { ...this.state, ...patch }
merge(state, patch) ==
  [f \in DOMAIN state |-> IF f \in DOMAIN patch THEN patch[f] ELSE state[f]]

\* a dispatch that merges on every TOTAL_ROWS_UPDATED
dispatchPatchesUnguarded(state, event) ==
  IF event.type = "TOTAL_ROWS_UPDATED" THEN <<[totalRows |-> event.totalRows]>> ELSE <<>>

\* the patches dispatch(event) hands to merge: one, or none
dispatchPatches(state, event) ==
  CASE event.type = "LAYOUT_READY" ->
         <<[layout |-> <<event.layout>>, status |-> "streaming"]>>
    [] event.type = "WINDOW_UPDATE" ->
         <<[window    |-> <<event.window>>,
            layout    |-> <<event.window.layout>>,
            totalRows |-> event.window.layout.totalRows]>>
    [] event.type = "BACKPRESSURE" -> <<[backpressure |-> event.state]>>
    [] event.type = "TOTAL_ROWS_UPDATED" ->
         IF state.totalRows # event.totalRows
         THEN <<[totalRows |-> event.totalRows]>>
         ELSE <<>>
    [] event.type = "INGEST_ERROR" ->
         <<[status |-> "error",
            error  |-> <<ErrorText(<<event.seq>>, event.message)>>]>>
    [] OTHER -> <<>>

dispatch(state, event) ==
  IF dispatchPatches(state, event) = <<>> THEN state
  ELSE merge(state, dispatchPatches(state, event)[1])

\* the patch of setStatus(status, error): error = <<>> is the omitted argument
setStatusPatch(state, status, error) ==
  [status |-> status, error |-> IF error = <<>> THEN state.error ELSE error]

setStatus(state, status, error) == merge(state, setStatusPatch(state, status, error))

\* setPitch(pixels): the consumer-measured row height
setPitch(state, pixels) == merge(state, [pitch |-> pixels])

\* ------------------------------------------------------------------------
\* atomic-store.ts: an AtomicStore object.  snapshots are the state objects
\* allocated so far, ref is the index of the one this.state refers to,
\* listeners is the Set of subscribed listeners.  calls and seen record, for
\* each listener, how often it has been invoked and the reference getState()
\* returned inside its last invocation; unsubscribed, ops and log record the
\* unsubscribe functions called, the number of dispatch/setStatus calls and
\* their arguments.

Listeners == {1, 2}

NewAtomicStore ==
  [ref |-> 1, snapshots |-> <<INITIAL_STORE_STATE>>, listeners |-> {},
   unsubscribed |-> {}, calls |-> [l \in Listeners |-> 0],
   seen |-> [l \in Listeners |-> 0], ops |-> 0, log |-> <<>>]

getState(a) == a.snapshots[a.ref]

subscribe(a, l) == [a EXCEPT !.listeners = @ \cup {l}]

\* the function subscribe returned for l
unsubscribe(a, l) ==
  [a EXCEPT !.listeners = @ \ {l}, !.unsubscribed = @ \cup {l}]

\* notify: every listener of the Set runs once and reads getState()
notify(a) ==
  [a EXCEPT !.calls = [l \in Listeners |-> IF l \in a.listeners THEN @[l] + 1 ELSE @[l]],
            !.seen  = [l \in Listeners |-> IF l \in a.listeners THEN a.ref ELSE @[l]]]

\* a merge that notifies before it assigns this.state
AtomicMergeNotifyFirst(a, patch) ==
  [notify(a) EXCEPT !.snapshots = Append(@, merge(getState(a), patch)),
                    !.ref = Len(a.snapshots) + 1]

\* merge on the object: a new state object, this.state = next, notify()
AtomicMerge(a, patch) ==
  notify([a EXCEPT !.snapshots = Append(@, merge(getState(a), patch)),
                   !.ref = Len(a.snapshots) + 1])

AtomicDispatch(a, event) ==
  IF dispatchPatches(getState(a), event) = <<>> THEN a
  ELSE AtomicMerge(a, dispatchPatches(getState(a), event)[1])

AtomicSetStatus(a, status, error) ==
  AtomicMerge(a, setStatusPatch(getState(a), status, error))

\* ------------------------------------------------------------------------
\* use-stability-orchestrator.ts: the ACK registry and the ingest pump.
\* The registry maps a seq to the resolver of the promise of pump `pump`.

ResolverSet(reg, seq, p) == {e \in reg : e.seq # seq} \cup {[seq |-> seq, pump |-> p]}

ResolverDelete(reg, seqs) == {e \in reg : e.seq \notin seqs}

\* a pump right after `void pump()`: it runs to its first reader.read().
\* reads, posted and resolved count what it has done so far; source is the
\* state of the stream it reads: open, closed (ended) or cancelled.
NewPump ==
  [pc |-> "reading", batchSeq |-> 0, await |-> 0, aborted |-> FALSE,
   listeners |-> {}, locked |-> TRUE, reads |-> 0, posted |-> 0, resolved |-> 0,
   source |-> "open"]

\* the finally block, after which the pump has returned
Finally(pm) == [pm EXCEPT !.pc = "done", !.locked = FALSE]

\* a pump that goes on to its next reader.read() without awaiting the ACK
AwaitAckSkipped(pm, seq) == [pm EXCEPT !.pc = "reading", !.await = seq]

\* `await ack` after the INGEST for seq has been posted
AwaitAck(pm, seq) == [pm EXCEPT !.pc = "awaiting", !.await = seq]

\* the promise the pump awaits is the one a registry entry settles
Awaits(pm, p, e) == pm.pc = "awaiting" /\ e.pump = p /\ e.seq = pm.await

\* `await ack` returns: the loop test, then the next reader.read()
Resume(pm) ==
  IF pm.aborted THEN Finally([pm EXCEPT !.resolved = @ + 1])
  ELSE [pm EXCEPT !.pc = "reading", !.resolved = @ + 1]

\* a shutdown that settles the awaited promises by rejection: the pumps end
ShutdownRejects(ps, es) ==
  [p \in DOMAIN ps |->
     IF \E e \in es : Awaits(ps[p], p, e) THEN Finally(ps[p]) ELSE ps[p]]

\* every pump whose awaited promise one of the entries es resolves goes on
ResolveAll(ps, es) ==
  [p \in DOMAIN ps |->
     IF \E e \in es : Awaits(ps[p], p, e) THEN Resume(ps[p]) ELSE ps[p]]

\* every pump whose awaited promise one of the entries es rejects ends
RejectAll(ps, es) ==
  [p \in DOMAIN ps |->
     IF \E e \in es : Awaits(ps[p], p, e) THEN Finally(ps[p]) ELSE ps[p]]

\* the catch block of the rejected pumps: setStatus("error", String(e))
\* unless the pump's signal is aborted
CatchAll(state, ps, es, message) ==
  IF \E p \in DOMAIN ps : \E e \in es : Awaits(ps[p], p, e) /\ ~ps[p].aborted
  THEN setStatus(state, "error", <<ErrorText(<<>>, message)>>)
  ELSE state

\* ------------------------------------------------------------------------
\* Initial state: a constructed DataWorkerCore, a constructed store, the
\* hook's refs before its effects have run

Init ==
  /\ core = DataWorkerCore
  /\ closed = FALSE
  /\ inited = FALSE
  /\ emitted = <<>>
  /\ lastBatches = <<>>
  /\ shadow = [rows |-> <<>>, clean |-> TRUE]
  /\ delivered = <<>>
  /\ ackLog = <<>>
  /\ windowLog = <<>>
  /\ samples = <<>>
  /\ budget = [ingests |-> 0, cmds |-> 0, frames |-> 0]
  /\ main = [worker |-> "none", layoutRef |-> <<>>, seqRef |-> 0, acksReceived |-> 0,
             crashed |-> {}, posters |-> <<>>]
  /\ toWorker = <<>>
  /\ toMain = <<>>
  /\ store = INITIAL_STORE_STATE
  /\ ackResolvers = {}
  /\ pumps = <<>>
  /\ atomic = NewAtomicStore
  /\ stream = NoStream
  /\ heap = NewHeap
  /\ presence = NoPresence
  /\ warmup = NoWarmup
  /\ slot = NoSlot

\* ------------------------------------------------------------------------
\* The worker

\* self.onmessage; TERMINATE is self.close()
OnMessage(w, cmd) ==
  CASE cmd.type = "INIT"            -> init(w, cmd)
    [] cmd.type = "INGEST"          -> ingest(w, cmd)
    [] cmd.type = "SET_WINDOW"      -> setWindow(w, cmd)
    [] cmd.type = "RESIZE_VIEWPORT" -> resizeViewport(w, cmd)
    [] cmd.type = "FRAME_ACK"       -> frameAck(w, cmd)
    [] cmd.type = "TERMINATE"       -> w

\* the worker's state after a handler that ended in w
Handled(w) ==
  /\ core' = w.c
  /\ emitted' = w.out
  /\ windowLog' = windowLog \o WindowSeqs(w.out)

\* the worker runs self.onmessage on cmd
Receive(cmd) ==
  /\ ~closed
  /\ Handled(OnMessage([c |-> core, out |-> <<>>], cmd))
  /\ closed' = (cmd.type = "TERMINATE")
  /\ lastBatches' = <<>>
  /\ inited' = (inited \/ cmd.type = "INIT")
  /\ delivered' = IF cmd.type = "INGEST" THEN Append(delivered, cmd.seq) ELSE delivered
  /\ samples' = IF cmd.type = "FRAME_ACK" THEN Append(samples, cmd.renderMs) ELSE samples
  /\ UNCHANGED <<shadow, ackLog>>

\* the worker's state after a processQueue call that ended in st
Processed(st) ==
  /\ Handled(st.w)
  /\ lastBatches' = st.log
  /\ shadow' = st.shadow
  /\ ackLog' = ackLog \o AckSeqs(st.w.out)

\* the timer set by scheduleProcess fires
ProcessQueue ==
  /\ ~closed
  /\ core.processing
  /\ Processed(processQueue([c |-> core, out |-> <<>>], shadow))
  /\ UNCHANGED <<closed, inited, delivered, samples>>

\* ------------------------------------------------------------------------
\* The worker driven directly by its environment: any command at any time

InitCmd(cmd) ==
  /\ ~inited
  /\ Receive(cmd)
  /\ UNCHANGED <<budget, mainVars>>

Ingest(buffer) ==
  /\ inited
  /\ budget.ingests < MaxIngests
  /\ Receive([type |-> "INGEST", buffer |-> buffer, seq |-> budget.ingests])
  /\ budget' = [budget EXCEPT !.ingests = @ + 1]
  /\ UNCHANGED mainVars

SetWindow(startRow, rowCount) ==
  /\ inited
  /\ budget.cmds < MaxCmds
  /\ Receive([type |-> "SET_WINDOW", startRow |-> startRow, rowCount |-> rowCount])
  /\ budget' = [budget EXCEPT !.cmds = @ + 1]
  /\ UNCHANGED mainVars

ResizeViewport(height) ==
  /\ inited
  /\ budget.cmds < MaxCmds
  /\ Receive([type |-> "RESIZE_VIEWPORT", height |-> height])
  /\ budget' = [budget EXCEPT !.cmds = @ + 1]
  /\ UNCHANGED mainVars

\* a FRAME_ACK among the other commands
FrameCmd(renderMs) ==
  /\ inited
  /\ budget.cmds < MaxCmds
  /\ Receive([type |-> "FRAME_ACK", renderMs |-> renderMs, seq |-> 0])
  /\ budget' = [budget EXCEPT !.cmds = @ + 1]
  /\ UNCHANGED mainVars

TimerFires ==
  /\ ProcessQueue
  /\ UNCHANGED <<budget, mainVars>>

Next ==
  \/ \E cmd \in InitCmds : InitCmd(cmd)
  \/ \E b \in WireInputs : Ingest(b)
  \/ \E win \in WindowInputs : SetWindow(win[1], win[2])
  \/ \E h \in ResizeHeights : ResizeViewport(h)
  \/ \E ms \in SlowFrames : FrameCmd(ms)
  \/ TimerFires

Spec == Init /\ [][Next]_vars

\* ------------------------------------------------------------------------
\* The worker under a burst: no frame report or MaxFrames slow ones, then more
\* INGEST commands than the queue holds, delivered before the processQueue
\* timer runs or after

FrameAck(renderMs) ==
  /\ inited
  /\ budget.ingests = 0
  /\ budget.frames < MaxFrames
  /\ Receive([type |-> "FRAME_ACK", renderMs |-> renderMs, seq |-> 0])
  /\ budget' = [budget EXCEPT !.frames = @ + 1]
  /\ UNCHANGED mainVars

BurstIngest(buffer) ==
  /\ inited
  /\ budget.frames \in {0, MaxFrames}
  /\ budget.ingests < MaxBurst
  /\ Receive([type |-> "INGEST", buffer |-> buffer, seq |-> budget.ingests])
  /\ budget' = [budget EXCEPT !.ingests = @ + 1]
  /\ UNCHANGED mainVars

NextShed ==
  \/ \E cmd \in InitCmds : InitCmd(cmd)
  \/ \E ms \in SlowFrames : FrameAck(ms)
  \/ \E b \in BurstInputs : BurstIngest(b)
  \/ TimerFires

SpecShed == Init /\ [][NextShed]_vars

\* ------------------------------------------------------------------------
\* The worker under frame reports: up to MaxSamples FRAME_ACK commands with
\* render times of either kind, among INGEST commands and processQueue runs

FrameSample(renderMs) ==
  /\ inited
  /\ budget.frames < MaxSamples
  /\ Receive([type |-> "FRAME_ACK", renderMs |-> renderMs, seq |-> 0])
  /\ budget' = [budget EXCEPT !.frames = @ + 1]
  /\ UNCHANGED mainVars

NextFrames ==
  \/ \E cmd \in InitCmds : InitCmd(cmd)
  \/ \E ms \in FrameInputs : FrameSample(ms)
  \/ \E b \in BurstInputs : Ingest(b)
  \/ TimerFires

SpecFrames == Init /\ [][NextFrames]_vars

\* ------------------------------------------------------------------------
\* An AtomicStore on its own: up to MaxStoreOps dispatch and setStatus calls
\* among subscribe and unsubscribe calls.  Events reach the store as fresh
\* structured clones: the objects an event carries are tagged with the
\* number of the call, so two object fields are equal only if they are the
\* same object.

StoreEvents ==
  { [type |-> "LAYOUT_READY", layout |-> [totalRows |-> 0]],
    [type |-> "WINDOW_UPDATE", window |-> [seq |-> 0, layout |-> [totalRows |-> 5]]],
    [type |-> "BACKPRESSURE", state |-> [strategy |-> "BUFFER"]],
    [type |-> "TOTAL_ROWS_UPDATED", totalRows |-> 0],
    [type |-> "TOTAL_ROWS_UPDATED", totalRows |-> 5],
    [type |-> "INGEST_ERROR", seq |-> 0, message |-> "Schema mismatch"],
    [type |-> "INGEST_ACK", seq |-> 0] }

\* the event as the clone that call number n receives
Clone(event, n) ==
  CASE event.type = "LAYOUT_READY" ->
         [event EXCEPT !.layout = [obj |-> n, totalRows |-> @.totalRows]]
    [] event.type = "WINDOW_UPDATE" ->
         [event EXCEPT !.window = [obj |-> n, seq |-> @.seq,
                                   layout |-> [obj |-> n, totalRows |-> @.layout.totalRows]]]
    [] event.type = "BACKPRESSURE" ->
         [event EXCEPT !.state = [obj |-> n, strategy |-> @.strategy]]
    [] OTHER -> event

StatusInputs ==
  {<<"streaming", <<>>>>, <<"error", <<ErrorText(<<>>, "Worker not initialized")>>>>}

StoreDispatch(event) ==
  /\ atomic.ops < MaxStoreOps
  /\ atomic' = [AtomicDispatch(atomic, Clone(event, atomic.ops)) EXCEPT
                  !.ops = @ + 1, !.log = Append(@, event)]
  /\ store' = getState(atomic')
  /\ UNCHANGED <<workerVars, budget, main, toWorker, toMain, ackResolvers, pumps, stream, heap, hookVars>>

StoreSetStatus(status, error) ==
  /\ atomic.ops < MaxStoreOps
  /\ atomic' = [AtomicSetStatus(atomic, status, error) EXCEPT
                  !.ops = @ + 1, !.log = Append(@, [type |-> "setStatus", status |-> status])]
  /\ store' = getState(atomic')
  /\ UNCHANGED <<workerVars, budget, main, toWorker, toMain, ackResolvers, pumps, stream, heap, hookVars>>

Subscribe(l) ==
  /\ l \notin atomic.listeners \cup atomic.unsubscribed
  /\ atomic' = subscribe(atomic, l)
  /\ UNCHANGED <<workerVars, budget, main, toWorker, toMain, store, ackResolvers, pumps, stream, heap, hookVars>>

Unsubscribe(l) ==
  /\ l \in atomic.listeners
  /\ atomic' = unsubscribe(atomic, l)
  /\ UNCHANGED <<workerVars, budget, main, toWorker, toMain, store, ackResolvers, pumps, stream, heap, hookVars>>

NextStore ==
  \/ \E e \in StoreEvents : StoreDispatch(e)
  \/ \E st \in StatusInputs : StoreSetStatus(st[1], st[2])
  \/ \E l \in Listeners : Subscribe(l)
  \/ \E l \in Listeners : Unsubscribe(l)

SpecStore == Init /\ [][NextStore]_vars

\* ------------------------------------------------------------------------
\* The orchestrator hook with its worker: one mount, one ingest() call on a
\* source of at most MaxSource batches, message channels in both directions

\* a worker handler's events are posted to the main thread in order
Posted == toMain' = toMain \o emitted'

\* the worker effect: new Worker, handlers installed, INIT posted
Mount ==
  /\ main.worker = "none"
  /\ main' = [main EXCEPT !.worker = "live"]
  /\ \E cmd \in InitCmds : toWorker' = Append(toWorker, cmd)
  /\ UNCHANGED <<workerVars, budget, toMain, store, ackResolvers, pumps, atomic, stream, heap, hookVars>>

\* the worker takes the next command off its port
WorkerReceive ==
  /\ toWorker # <<>>
  /\ Receive(Head(toWorker))
  /\ toWorker' = Tail(toWorker)
  /\ Posted
  /\ UNCHANGED <<budget, main, store, ackResolvers, pumps, atomic, stream, heap, hookVars>>

WorkerTimer ==
  /\ ProcessQueue
  /\ Posted
  /\ UNCHANGED <<budget, main, toWorker, store, ackResolvers, pumps, atomic, stream, heap, hookVars>>

\* ingest(stream): setStatus("streaming") and the pump's start
CallIngest ==
  /\ pumps = <<>>
  /\ store' = setStatus(store, "streaming", <<>>)
  /\ pumps' = Append(pumps, NewPump)
  /\ UNCHANGED <<workerVars, budget, main, toWorker, toMain, ackResolvers, atomic, stream, heap, hookVars>>

\* reader.read() of pump p resolves with a batch; main.posters records which
\* pump posted each INGEST, in posting order
ReaderRead(p, value) ==
  /\ pumps[p].pc = "reading"
  /\ pumps[p].reads < MaxSource
  /\ IF main.worker # "live"
     THEN /\ store' = setStatus(store, "error",
                                <<ErrorText(<<>>, "Worker not initialized")>>)
          /\ pumps' = [pumps EXCEPT
                         ![p] = Finally([@ EXCEPT !.batchSeq = @ + 1, !.reads = @ + 1])]
          /\ UNCHANGED <<ackResolvers, toWorker, main>>
     ELSE /\ ackResolvers' = ResolverSet(ackResolvers, pumps[p].batchSeq, p)
          /\ toWorker' = Append(toWorker, [type |-> "INGEST", buffer |-> value,
                                           seq |-> pumps[p].batchSeq])
          /\ pumps' = [pumps EXCEPT
                         ![p] = AwaitAck([@ EXCEPT !.batchSeq = @ + 1,
                                                   !.reads = @ + 1,
                                                   !.posted = @ + 1,
                                                   !.listeners = @ \cup {pumps[p].batchSeq}],
                                         pumps[p].batchSeq)]
          /\ main' = [main EXCEPT !.posters = Append(@, [pump |-> p, seq |-> pumps[p].batchSeq])]
          /\ UNCHANGED store
  /\ UNCHANGED <<workerVars, budget, toMain, atomic, stream, heap, hookVars>>

\* reader.read() of pump p resolves with done: the source has ended
ReaderDone(p) ==
  /\ pumps[p].pc = "reading"
  /\ store' = setStatus(store, "complete", <<>>)
  /\ pumps' = [pumps EXCEPT ![p] = Finally([@ EXCEPT !.source = "closed"])]
  /\ UNCHANGED <<workerVars, budget, main, toWorker, toMain, ackResolvers, atomic, stream, heap, hookVars>>

\* worker.onmessage for the next event of the worker
MainOnMessage ==
  /\ toMain # <<>>
  /\ toMain' = Tail(toMain)
  /\ IF Head(toMain).type = "INGEST_ACK"
     THEN /\ pumps' = ResolveAll(pumps, {e \in ackResolvers : e.seq = Head(toMain).seq})
          /\ ackResolvers' = ResolverDelete(ackResolvers, {Head(toMain).seq})
          /\ main' = [main EXCEPT !.acksReceived = @ + 1]
          /\ UNCHANGED store
     ELSE /\ store' = dispatch(store, Head(toMain))
          /\ main' = IF Head(toMain).type = "WINDOW_UPDATE"
                     THEN [main EXCEPT !.layoutRef = <<Head(toMain).window.layout>>,
                                       !.seqRef = Head(toMain).window.seq]
                     ELSE main
          /\ UNCHANGED <<pumps, ackResolvers>>
  /\ UNCHANGED <<workerVars, budget, toWorker, atomic, stream, heap, hookVars>>

\* worker.onerror
WorkerError ==
  /\ main.worker = "live"
  /\ store' = CatchAll(setStatus(store, "error", <<ErrorText(<<>>, "Worker error")>>),
                       pumps, ackResolvers, "Worker crashed")
  /\ pumps' = RejectAll(pumps, ackResolvers)
  /\ ackResolvers' = {}
  /\ main' = [main EXCEPT
                !.crashed = @ \cup {p \in DOMAIN pumps : pumps[p].pc # "done"}]
  /\ UNCHANGED <<workerVars, budget, toWorker, toMain, atomic, stream, heap, hookVars>>

\* reader.cancel(): it cancels the stream of a reader that holds the lock and
\* rejects (TypeError) on a reader that has released it
ReaderCancel(pm) ==
  IF pm.locked /\ pm.source = "open" THEN [pm EXCEPT !.source = "cancelled"] ELSE pm

\* the cleanup function that ingest() returned for pump p: controller.abort()
\* runs every abort listener, reader.cancel() ends a pending read with done
Cleanup(p) ==
  /\ ~pumps[p].aborted
  /\ ackResolvers' = ResolverDelete(ackResolvers, pumps[p].listeners)
  /\ pumps' = [pumps EXCEPT
                 ![p] = IF @.pc = "done"
                        THEN ReaderCancel([@ EXCEPT !.aborted = TRUE, !.listeners = {}])
                        ELSE Finally(ReaderCancel([@ EXCEPT !.aborted = TRUE,
                                                            !.listeners = {}]))]
  /\ store' = IF pumps[p].pc = "reading" THEN setStatus(store, "complete", <<>>)
              ELSE store
  /\ UNCHANGED <<workerVars, budget, main, toWorker, toMain, atomic, stream, heap, hookVars>>

\* the worker effect's cleanup: TERMINATE posted, worker.terminate(), every
\* pending promise resolved.  terminate() discards what either port still holds.
\* The worker runs beside the main thread: with nothing else on its port it
\* may take TERMINATE (self.close()) before terminate() stops it.
Unmount ==
  /\ main.worker = "live"
  /\ main' = [main EXCEPT !.worker = "gone"]
  /\ \/ /\ toWorker = <<>>
        /\ Receive([type |-> "TERMINATE"])
     \/ /\ closed' = TRUE
        /\ UNCHANGED <<core, inited, emitted, lastBatches, shadow, delivered, ackLog,
                       windowLog, samples>>
  /\ toWorker' = <<>>
  /\ toMain' = <<>>
  /\ pumps' = ResolveAll(pumps, ackResolvers)
  /\ ackResolvers' = {}
  /\ UNCHANGED <<budget, store, atomic, stream, heap, hookVars>>

NextPump ==
  \/ Mount
  \/ WorkerReceive
  \/ WorkerTimer
  \/ CallIngest
  \/ \E p \in DOMAIN pumps : \E b \in PumpInputs : ReaderRead(p, b)
  \/ \E p \in DOMAIN pumps : ReaderDone(p)
  \/ MainOnMessage
  \/ WorkerError
  \/ \E p \in DOMAIN pumps : Cleanup(p)
  \/ Unmount

SpecPump == Init /\ [][NextPump]_vars

\* ------------------------------------------------------------------------
\* The orchestrator with up to MaxPumps ingest() calls: each call has its own
\* AbortController, reader and batchSeq counter starting at 0; all of them
\* share the one ackResolversRef Map and the one worker

MaxPumps == 2

\* ingest(stream) called again while the pump of an earlier call exists
CallIngestAgain ==
  /\ pumps # <<>>
  /\ Len(pumps) < MaxPumps
  /\ store' = setStatus(store, "streaming", <<>>)
  /\ pumps' = Append(pumps, NewPump)
  /\ UNCHANGED <<workerVars, budget, main, toWorker, toMain, ackResolvers, atomic, stream, heap, hookVars>>

NextIngests ==
  \/ NextPump
  \/ CallIngestAgain

SpecIngests == Init /\ [][NextIngests]_vars

\* ------------------------------------------------------------------------
\* A stream made by createRecordBatchStream over a source of at most
\* MaxBatches row batches that ends or throws, and a reader of the stream

CreateStream(schema) ==
  /\ stream.state = "none"
  /\ stream' = createRecordBatchStream(schema)
  /\ UNCHANGED <<workerVars, budget, main, toWorker, toMain, store, ackResolvers, pumps,
                 atomic, heap, hookVars>>

SourceYields(rows) ==
  /\ stream.state = "readable"
  /\ Len(stream.source) < MaxBatches
  /\ stream' = EnqueueBatch(stream, rows)
  /\ UNCHANGED <<workerVars, budget, main, toWorker, toMain, store, ackResolvers, pumps,
                 atomic, heap, hookVars>>

SourceEnds ==
  /\ stream.state = "readable"
  /\ stream' = StreamClose(stream)
  /\ UNCHANGED <<workerVars, budget, main, toWorker, toMain, store, ackResolvers, pumps,
                 atomic, heap, hookVars>>

SourceThrows ==
  /\ stream.state = "readable"
  /\ stream' = StreamError(stream)
  /\ UNCHANGED <<workerVars, budget, main, toWorker, toMain, store, ackResolvers, pumps,
                 atomic, heap, hookVars>>

StreamRead ==
  /\ stream.queue # <<>>
  /\ stream' = StreamShift(stream)
  /\ UNCHANGED <<workerVars, budget, main, toWorker, toMain, store, ackResolvers, pumps,
                 atomic, heap, hookVars>>

NextStream ==
  \/ \E schema \in EncoderSchemas : CreateStream(schema)
  \/ \E rows \in EncoderBatches : SourceYields(rows)
  \/ SourceEnds
  \/ SourceThrows
  \/ StreamRead

SpecStream == Init /\ [][NextStream]_vars

\* ------------------------------------------------------------------------
\* A NumericColumn, the windows packed from it and their consumer.

MaxColumnRows == 4

MaxWindows == 2

MaxWrites == 1

ColumnInputs == {<<1>>, <<2, 3>>}

ColumnAppend(src) ==
  /\ heap.length + Len(src) <= MaxColumnRows
  /\ heap' = ColumnBufAppend(heap, src)
  /\ UNCHANGED <<workerVars, budget, main, toWorker, toMain, store, ackResolvers, pumps,
                 atomic, stream, hookVars>>

EmitWindow(startRow, rowCount) ==
  /\ Len(heap.windows) < MaxWindows
  /\ startRow < heap.length
  /\ heap' = PackWindow(heap, startRow, Min(rowCount, heap.length - startRow))
  /\ UNCHANGED <<workerVars, budget, main, toWorker, toMain, store, ackResolvers, pumps,
                 atomic, stream, hookVars>>

ConsumerWrites(w, i) ==
  /\ heap.writes < MaxWrites
  /\ w \in 1..Len(heap.windows)
  /\ i \in 1..Len(heap.cells[heap.windows[w].id])
  /\ heap' = ConsumerStore(heap, w, i, 9)
  /\ UNCHANGED <<workerVars, budget, main, toWorker, toMain, store, ackResolvers, pumps,
                 atomic, stream, hookVars>>

NextHeap ==
  \/ \E src \in ColumnInputs : ColumnAppend(src)
  \/ \E startRow \in 0..1, rowCount \in 1..2 : EmitWindow(startRow, rowCount)
  \/ \E w \in 1..MaxWindows, i \in 1..MaxColumnRows : ConsumerWrites(w, i)

SpecHeap == Init /\ [][NextHeap]_vars

\* ------------------------------------------------------------------------
\* A component with usePresence: its parent renders it with either value of
\* show, React runs the effect after the commit and before the next render,
\* and animationend events reach the mounted element at any time.

MaxPresenceOps == 8

PresenceStep(p) ==
  /\ presence.ops < MaxPresenceOps
  /\ presence' = [p EXCEPT !.ops = presence.ops + 1]
  /\ UNCHANGED <<workerVars, budget, main, toWorker, toMain, store, ackResolvers, pumps,
                 atomic, stream, heap, warmup, slot>>

PresenceMount(show) ==
  /\ ~presence.live
  /\ PresenceStep(PresenceFirstRender(show))

\* the parent renders with another show
PresenceShow(show) ==
  /\ presence.live
  /\ ~presence.effect
  /\ show # presence.show
  /\ PresenceStep(PresenceRender(presence, show))

\* React renders the queued setState calls
PresenceRerender ==
  /\ presence.live
  /\ ~presence.effect
  /\ presence.queue # <<>>
  /\ PresenceStep(PresenceRender(presence, presence.show))

PresenceRunEffect ==
  /\ presence.effect
  /\ PresenceStep(PresenceEffect(presence))

\* an animation of the element (own) or of a descendant ends
AnimationEnd(own) ==
  /\ presence.live
  /\ presence.view.mounted
  /\ PresenceStep(onAnimationEnd(presence, own))

NextPresence ==
  \/ \E show \in BOOLEAN : PresenceMount(show)
  \/ \E show \in BOOLEAN : PresenceShow(show)
  \/ PresenceRerender
  \/ PresenceRunEffect
  \/ \E own \in BOOLEAN : AnimationEnd(own)

SpecPresence == Init /\ [][NextPresence]_vars

\* ------------------------------------------------------------------------
\* A component with useWarmupExit: its parent renders it with any loading and
\* duration, React runs the effect after the commit and before the next
\* render, and the timer fires when its delay has passed.

MaxWarmupOps == 7

Durations == {150, 300}

WarmupStep(u) ==
  /\ warmup.ops < MaxWarmupOps
  /\ warmup' = [u EXCEPT !.ops = warmup.ops + 1]
  /\ UNCHANGED <<workerVars, budget, main, toWorker, toMain, store, ackResolvers, pumps,
                 atomic, stream, heap, presence, slot>>

WarmupMount(loading, duration) ==
  /\ ~warmup.live
  /\ WarmupStep(WarmupFirstRender(loading, duration))

\* the parent renders with another loading or duration
WarmupProps(loading, duration) ==
  /\ warmup.live
  /\ ~warmup.effect
  /\ loading # warmup.loading \/ duration # warmup.duration
  /\ WarmupStep(WarmupRender(warmup, loading, duration))

\* React renders the queued setExiting calls
WarmupRerender ==
  /\ warmup.live
  /\ ~warmup.effect
  /\ warmup.queue # <<>>
  /\ WarmupStep(WarmupRender(warmup, warmup.loading, warmup.duration))

WarmupRunEffect ==
  /\ warmup.effect
  /\ WarmupStep(WarmupEffect(warmup))

WarmupTimerFires ==
  /\ warmup.timer # <<>>
  /\ WarmupStep(WarmupTimeout(warmup))

NextWarmup ==
  \/ \E loading \in BOOLEAN, duration \in Durations : WarmupMount(loading, duration)
  \/ \E loading \in BOOLEAN, duration \in Durations : WarmupProps(loading, duration)
  \/ WarmupRerender
  \/ WarmupRunEffect
  \/ WarmupTimerFires

SpecWarmup == Init /\ [][NextWarmup]_vars

\* ------------------------------------------------------------------------
\* A component with useStableSlot: React attaches and detaches the ref, the
\* ResizeObserver reports border-box sizes, React renders the queued styles.

MaxSlotOps == 4

Axes == {"width", "height", "both"}

Sizes == {[w |-> 10, h |-> 10], [w |-> 20, h |-> 10], [w |-> 10, h |-> 20]}

ObservedEntries == {<<a>> : a \in Sizes} \cup {<<a, b>> : a, b \in Sizes}

SlotStep(sl) ==
  /\ slot.ops < MaxSlotOps
  /\ slot' = [sl EXCEPT !.ops = slot.ops + 1]
  /\ UNCHANGED <<workerVars, budget, main, toWorker, toMain, store, ackResolvers, pumps,
                 atomic, stream, heap, presence, warmup>>

SlotMount(axis) ==
  /\ ~slot.live
  /\ SlotStep(SlotRef(SlotFirstRender(axis), TRUE))

\* the element is unmounted or mounted again: ref(null), ref(el)
SlotAttach(el) ==
  /\ slot.live
  /\ slot.observing # el
  /\ SlotStep(SlotRef(slot, el))

Observe(entries) ==
  /\ slot.observing
  /\ SlotStep(SlotEntries(slot, entries))

SlotRerender ==
  /\ slot.live
  /\ slot.queue # <<>>
  /\ SlotStep(SlotRender(slot))

NextSlot ==
  \/ \E axis \in Axes : SlotMount(axis)
  \/ \E el \in BOOLEAN : SlotAttach(el)
  \/ \E entries \in ObservedEntries : Observe(entries)
  \/ SlotRerender

SpecSlot == Init /\ [][NextSlot]_vars

\* ------------------------------------------------------------------------
\* The orchestrator hook with its worker and a scroll container: one mount,
\* one ingest() call, a measured pitch pushed to the store, scroll events

overscanRows == 3

\* el.scrollTop at a scroll event, and the pitch the consumer measures
ScrollTops == {0, 100}

PitchInputs == {72}

\* store.setPitch(pixels) by the consumer
SetPitch(pixels) ==
  /\ store.pitch # pixels
  /\ store' = setPitch(store, pixels)
  /\ UNCHANGED <<workerVars, budget, main, toWorker, toMain, ackResolvers, pumps, atomic, stream, heap, hookVars>>

\* handleScroll with the container at scrollTop
HandleScroll(scrollTop) ==
  /\ budget.cmds < MaxCmds
  /\ budget' = [budget EXCEPT !.cmds = @ + 1]
  /\ IF main.layoutRef = <<>> THEN UNCHANGED toWorker
     ELSE IF main.layoutRef[1].rowHeight = 0 \/ main.worker # "live" THEN UNCHANGED toWorker
     ELSE toWorker' =
            Append(toWorker,
                   [type     |-> "SET_WINDOW",
                    startRow |-> scrollTop \div main.layoutRef[1].rowHeight,
                    rowCount |-> main.layoutRef[1].viewportRows + overscanRows * 2])
  /\ UNCHANGED <<workerVars, main, toMain, store, ackResolvers, pumps, atomic, stream, heap, hookVars>>

NextScroll ==
  \/ Mount
  \/ WorkerReceive
  \/ WorkerTimer
  \/ CallIngest
  \/ \E p \in DOMAIN pumps : \E b \in PumpInputs : ReaderRead(p, b)
  \/ \E p \in DOMAIN pumps : ReaderDone(p)
  \/ MainOnMessage
  \/ \E px \in PitchInputs : SetPitch(px)
  \/ \E st \in ScrollTops : HandleScroll(st)

SpecScroll == Init /\ [][NextScroll]_vars

\* ------------------------------------------------------------------------
\* Properties

Count(xs, s) == Cardinality({i \in DOMAIN xs : xs[i] = s})

QueuedSeqs == [i \in DOMAIN core.queue |-> core.queue[i].seq]

\* the events of one failed batch: INGEST_ERROR(seq), then INGEST_ACK(seq)
ErrorThenAck(evs, seq) ==
  /\ Len(evs) = 2
  /\ evs[1].type = "INGEST_ERROR"
  /\ evs[1].seq = seq
  /\ evs[2] = AckOf(seq)

\* the rowCount a buffer's header declares
HeaderRowCount(buffer) == IF CanGetUint32(buffer, 8) THEN GetUint32(buffer, 8) ELSE 0

\* the header and all descriptors of a buffer can be read
DescriptorsReadable(buffer) ==
  /\ CanGetUint32(buffer, 12)
  /\ 16 + 8 * GetUint32(buffer, 12) <= Len(buffer)

DescriptorTag(buffer, i) == GetUint32(buffer, 16 + 8 * (i - 1))

DescriptorByteLen(buffer, i) == GetUint32(buffer, 16 + 8 * (i - 1) + 4)

\* the leading 32-bit word is not BATCH_MAGIC
WrongMagic(buffer) == CanGetUint32(buffer, 0) /\ SubSeq(buffer, 1, 4) # BATCH_MAGIC

\* some descriptor's type tag is not one of 0..6
WrongTag(buffer) ==
  /\ DescriptorsReadable(buffer)
  /\ \E i \in 1..GetUint32(buffer, 12) : DescriptorTag(buffer, i) \notin 0..6

\* the declared blocks end after the end of the buffer
DeclaredPastEnd(buffer) ==
  /\ DescriptorsReadable(buffer)
  /\ 16 + 8 * GetUint32(buffer, 12)
       + SumSeq([i \in 1..GetUint32(buffer, 12) |-> DescriptorByteLen(buffer, i)])
     > Len(buffer)

\* column i of the parsed batch differs in type from schema[i], i below both counts
TypeMismatch(batch, types) ==
  /\ batch.ok
  /\ \E i \in 1..Min(Len(batch.columns), Len(types)) : batch.columns[i].type # types[i]

\* two list_utf8 columns of a parsed batch hold different item counts in some row
ListsDiffer(batch) ==
  /\ batch.ok
  /\ \E i, j \in 1..Len(batch.columns) : \E r \in 1..batch.rowCount :
       /\ batch.columns[i].type = "list_utf8"
       /\ batch.columns[j].type = "list_utf8"
       /\ r < Len(batch.columns[i].listRowOffsets)
       /\ r < Len(batch.columns[j].listRowOffsets)
       /\ batch.columns[i].listRowOffsets[r + 1] - batch.columns[i].listRowOffsets[r]
            # batch.columns[j].listRowOffsets[r + 1] - batch.columns[j].listRowOffsets[r]

WindowsOf(evs) == {i \in DOMAIN evs : evs[i].type = "WINDOW_UPDATE"}

\* a parsed column block holds rowCount rows that can each be read: the
\* offset arrays have an entry per row (and per item) and point into the
\* bytes that are there
BlockHoldsRows(col, rowCount) ==
  CASE col.type = "utf8" ->
         /\ Len(col.utf8Offsets) = rowCount + 1
         /\ NonDecreasing(col.utf8Offsets)
         /\ col.utf8Offsets[rowCount + 1] - col.utf8Offsets[1] <= Len(col.utf8Bytes)
    [] col.type = "list_utf8" ->
         /\ Len(col.listRowOffsets) = rowCount + 1
         /\ NonDecreasing(col.listRowOffsets)
         /\ col.listRowOffsets[rowCount + 1] <= col.listTotalItems
         /\ Len(col.listItemOffsets) = col.listTotalItems + 1
         /\ NonDecreasing(col.listItemOffsets)
         /\ col.listItemOffsets[col.listTotalItems + 1] - col.listItemOffsets[1]
              <= Len(col.listBytes)
    [] OTHER -> col.hasData /\ Len(col.data) = rowCount

\* a window buffer is a wire batch of exactly rowCount rows in every column
WindowHoldsRows(batch, rowCount) ==
  /\ batch.ok
  /\ batch.rowCount = rowCount
  /\ \A c \in 1..Len(batch.columns) : BlockHoldsRows(batch.columns[c], rowCount)

\* C1: every INGEST command delivered to the worker is acknowledged exactly
\* once with its own seq, whatever happens to its batch: at any time a
\* delivered command is either still queued and not yet acknowledged, or it
\* has left the queue and exactly one INGEST_ACK with its seq has been posted.
C1_EveryIngestAckedOnce ==
  \A i \in DOMAIN delivered :
     Count(ackLog, delivered[i]) + Count(QueuedSeqs, delivered[i]) = 1

\* C2: while the pump of one ingest() call runs, at most one ACK resolver is
\* registered, at most one posted INGEST has not had its INGEST_ACK received,
\* and a read of the source is pending only when the promise of every batch
\* posted so far has resolved.
C2_OneBatchInFlight ==
  \A p \in DOMAIN pumps :
     /\ Cardinality(ackResolvers) <= 1
     /\ pumps[p].posted - main.acksReceived <= 1
     /\ pumps[p].posted - pumps[p].resolved <= 1
     /\ pumps[p].pc = "reading" =>
          /\ pumps[p].posted = pumps[p].resolved
          /\ \A e \in ackResolvers : e.pump # p

\* C2 witness: the pump awaits the ACK of the second batch it has posted
C2_SecondBatchAwaited ==
  \E p \in DOMAIN pumps :
     /\ pumps[p].pc = "awaiting"
     /\ pumps[p].posted = 2
     /\ pumps[p].resolved = 1
     /\ main.acksReceived = 1
     /\ ackResolvers = {[seq |-> 1, pump |-> p]}

\* C3: no partial commit: each processed INGEST either grew every column and
\* totalRows by the rowCount of its batch, or changed no column and not
\* totalRows.
C3_NoPartialCommit ==
  \A i \in DOMAIN lastBatches :
     \/ /\ lastBatches[i].totalAfter
             = lastBatches[i].totalBefore + HeaderRowCount(lastBatches[i].buffer)
        /\ \A c \in DOMAIN lastBatches[i].rowsAfter :
             lastBatches[i].rowsAfter[c]
               = lastBatches[i].rowsBefore[c] + HeaderRowCount(lastBatches[i].buffer)
     \/ /\ lastBatches[i].colsSame
        /\ lastBatches[i].totalAfter = lastBatches[i].totalBefore

\* C4: after an INGEST processed without an INGEST_ERROR, every column's row
\* count equals totalRows.
C4_ColumnsAgreeAfterSuccess ==
  \A i \in DOMAIN lastBatches :
     ~HasEvent(lastBatches[i].evs, "INGEST_ERROR") =>
        \A c \in DOMAIN lastBatches[i].rowsAfter :
           lastBatches[i].rowsAfter[c] = lastBatches[i].totalAfter

\* C4 witness: a batch of two rows was committed without error on top of an
\* earlier commit
C4_CommittedOnTop ==
  \E i \in DOMAIN lastBatches :
     /\ ~HasEvent(lastBatches[i].evs, "INGEST_ERROR")
     /\ lastBatches[i].totalBefore > 0
     /\ lastBatches[i].totalAfter = lastBatches[i].totalBefore + 2

\* C5: an INGEST whose buffer fails to parse, or whose column i differs in
\* type from schema[i] for some i below both column counts, changes no column
\* and not totalRows, emits no TOTAL_ROWS_UPDATED, and emits INGEST_ERROR(seq)
\* followed by INGEST_ACK(seq).
C5_RejectedBatchMutatesNothing ==
  \A i \in DOMAIN lastBatches :
     (\/ ~parseBatch(lastBatches[i].buffer).ok
      \/ TypeMismatch(parseBatch(lastBatches[i].buffer), lastBatches[i].schemaTypes))
     => /\ lastBatches[i].colsSame
        /\ lastBatches[i].totalAfter = lastBatches[i].totalBefore
        /\ ~HasEvent(lastBatches[i].evs, "TOTAL_ROWS_UPDATED")
        /\ ErrorThenAck(lastBatches[i].evs, lastBatches[i].seq)

\* C5 witness: one processQueue call handled a buffer that does not parse and
\* a batch with a type mismatch
C5_BothRejections ==
  \E i, j \in DOMAIN lastBatches :
     /\ ~parseBatch(lastBatches[i].buffer).ok
     /\ TypeMismatch(parseBatch(lastBatches[j].buffer), lastBatches[j].schemaTypes)

\* C6: parseBatch fails, so that the batch gets an INGEST_ERROR and no column
\* is appended, for every buffer with a wrong magic word, with a descriptor
\* tag outside 0..6, or with declared byteLens that extend past its end.
C6_MalformedBufferRejected ==
  \A i \in DOMAIN lastBatches :
     (\/ WrongMagic(lastBatches[i].buffer)
      \/ WrongTag(lastBatches[i].buffer)
      \/ DeclaredPastEnd(lastBatches[i].buffer))
     => /\ HasEvent(lastBatches[i].evs, "INGEST_ERROR")
        /\ lastBatches[i].colsSame

\* C7: a batch whose two list_utf8 columns hold different item counts in some
\* row fails the post-commit check: INGEST_ERROR mentioning "Integrity
\* violation", then INGEST_ACK with the same seq.
C7_DivergentListsRejected ==
  \A i \in DOMAIN lastBatches :
     ListsDiffer(parseBatch(lastBatches[i].buffer))
     => /\ ErrorThenAck(lastBatches[i].evs, lastBatches[i].seq)
        /\ lastBatches[i].evs[1].message = "Integrity violation"

\* C8: once the INGEST_ERROR of an integrity violation has put the consumer
\* store in status error, the status stays error for the rest of the stream,
\* the end of the source included (the store keeps the error text through
\* every later setStatus that gives none).
C8_IntegrityErrorIsFatal ==
  (store.error # <<>> /\ store.error[1].message = "Integrity violation")
  => store.status = "error"

\* C9: every WINDOW_UPDATE carries a buffer that parses as a wire batch whose
\* header rowCount is window.rowCount and whose every column block holds that
\* many rows, with startRow in [0, totalRows - 1] and rowCount the requested
\* count clamped to totalRows - startRow; none is emitted when totalRows is 0
\* or the clamped count is not positive.
C9_WindowWellFormed ==
  \A i \in WindowsOf(emitted) :
     /\ WindowHoldsRows(parseBatch(emitted[i].window.buffer), emitted[i].window.rowCount)
     /\ core.totalRows > 0
     /\ emitted[i].window.startRow \in 0..(core.totalRows - 1)
     /\ emitted[i].window.rowCount > 0
     /\ emitted[i].window.rowCount
          = Min(core.windowCount, core.totalRows - emitted[i].window.startRow)

\* C10: when every batch that changed the store was committed in full, the
\* window emitted for rows [start, start + count) decodes, column by column,
\* to rows start .. start + count - 1 of the concatenation of the committed
\* batches in ingest order.
C10_WindowDecodesToRows ==
  shadow.clean =>
    \A i \in WindowsOf(emitted) :
       DecodeRows(parseBatch(emitted[i].window.buffer))
         = SubSeq(shadow.rows, emitted[i].window.startRow + 1,
                  emitted[i].window.startRow + emitted[i].window.rowCount)

\* C11: the seq values of the WINDOW_UPDATE events one worker instance has
\* emitted are strictly increasing in emission order.
C11_WindowSeqIncreasing ==
  \A i \in 1..(Len(windowLog) - 1) : windowLog[i] < windowLog[i + 1]

\* C11 witness: three windows have been emitted, two by processQueue and one
\* by SET_WINDOW
C11_ThreeWindows == Len(windowLog) >= 3

\* the offset invariants of one stored column
OffsetsAnchored(offsets, end) ==
  /\ offsets[1] = 0
  /\ NonDecreasing(offsets)
  /\ offsets[Len(offsets)] = end

\* C12: at every time every utf8 column has offsets[0] = 0, non-decreasing
\* offsets and offsets[rowCount] equal to the stored byte length; every
\* list_utf8 column has the same for rowOffsets against the stored item count
\* and for itemOffsets against the stored byte length.
C12_StoredOffsetsMonotonic ==
  \A i \in 1..Len(core.columns) :
     LET col == core.columns[i]
     IN  CASE col.kind = "utf8" -> OffsetsAnchored(col.offsets, Len(col.bytes))
           [] col.kind = "list_utf8" ->
                /\ OffsetsAnchored(col.rowOffsets, Len(col.itemOffsets) - 1)
                /\ OffsetsAnchored(col.itemOffsets, Len(col.bytes))
           [] OTHER -> TRUE

\* C13: the worker's ingest queue never holds more than MAX_QUEUE_DEPTH
\* commands, under any backpressure strategy.
C13_QueueBounded == Len(core.queue) <= MAX_QUEUE_DEPTH

\* the step is the handling of an INGEST command
IngestHandled == Len(delivered') = Len(delivered) + 1

\* C14: when the strategy is SHED and the queue holds MAX_QUEUE_DEPTH commands,
\* an arriving INGEST evicts exactly the oldest queued command, which gets an
\* INGEST_ERROR and an INGEST_ACK with its seq at once, and is enqueued itself;
\* under NOMINAL and BUFFER the INGEST is enqueued and nothing is evicted.
C14_ShedEvictsAndAcks ==
  [][IngestHandled =>
       IF core.bp.strategy = "SHED" /\ Len(core.queue) >= MAX_QUEUE_DEPTH
       THEN /\ core'.queue = Append(Tail(core.queue), core'.queue[Len(core'.queue)])
            /\ core'.queue[Len(core'.queue)].seq = delivered'[Len(delivered')]
            /\ ErrorThenAck(emitted', Head(core.queue).seq)
       ELSE /\ core'.queue = Append(core.queue, core'.queue[Len(core'.queue)])
            /\ emitted' = <<>>]_vars

\* the step is the handling of a FRAME_ACK command
FrameHandled == Len(samples') = Len(samples) + 1

\* the most recent min(n, RING_CAPACITY) of the samples xs
Recent(xs) == SubSeq(xs, Max(1, Len(xs) - RING_CAPACITY + 1), Len(xs))

\* the strategy of a mean: above 28 SHED, above 14 BUFFER, else NOMINAL
Classify(xs) ==
  IF SumSeq(xs) > 28 * Len(xs) THEN "SHED"
  ELSE IF SumSeq(xs) > 14 * Len(xs) THEN "BUFFER"
  ELSE "NOMINAL"

\* C15: a FRAME_ACK makes the worker emit one BACKPRESSURE event exactly when
\* the strategy after the sample differs from the strategy before it; the
\* event carries the new strategy, the queue length and the mean of the
\* recent samples; a sample that leaves the strategy unchanged emits nothing.
C15_BackpressureIffTransition ==
  [][FrameHandled =>
       IF core'.bp.strategy # core.bp.strategy
       THEN emitted' =
              <<[type  |-> "BACKPRESSURE",
                 state |-> [strategy    |-> core'.bp.strategy,
                            queueDepth  |-> Len(core'.queue),
                            avgRenderMs |-> [sum   |-> SumSeq(Recent(samples')),
                                             count |-> Len(Recent(samples'))]]]>>
       ELSE emitted' = <<>>]_vars

\* C15 witness: a BACKPRESSURE event that reports BUFFER with two commands
\* queued, after the strategy had been SHED or NOMINAL
C15_BufferReported ==
  /\ Len(emitted) = 1
  /\ emitted[1].type = "BACKPRESSURE"
  /\ emitted[1].state.strategy = "BUFFER"
  /\ emitted[1].state.queueDepth = 2
  /\ Len(samples) > MIN_SAMPLES

\* C16: once at least 4 samples have been recorded the strategy is the
\* classification of the mean of the most recent min(n, 8) samples; with
\* fewer than 4 samples the strategy is NOMINAL and no BACKPRESSURE event is
\* emitted.
C16_StrategyFollowsRecentMean ==
  IF Len(samples) >= MIN_SAMPLES
  THEN core.bp.strategy = Classify(Recent(samples))
  ELSE core.bp.strategy = "NOMINAL" /\ ~HasEvent(emitted, "BACKPRESSURE")

\* C16 witness: nine samples, the first of which has left the ring, and the
\* strategy is not what the first eight samples or all nine would give
C16_RingWrapped ==
  /\ Len(samples) = RING_CAPACITY + 1
  /\ Classify(Recent(samples)) # Classify(SubSeq(samples, 1, RING_CAPACITY))
  /\ Classify(Recent(samples)) # Classify(samples)

\* C17: when worker.onerror fires, every registered ACK promise is rejected
\* and the registry is emptied, the store status becomes error, and a pump
\* that was running at that moment posts no INGEST from then on.
C17_CrashStopsPump ==
  [][/\ WorkerError =>
          /\ ackResolvers' = {}
          /\ store'.status = "error"
          /\ \A p \in DOMAIN pumps :
               (\E e \in ackResolvers : Awaits(pumps[p], p, e)) =>
                 /\ pumps'[p].pc = "done"
                 /\ pumps'[p].resolved = pumps[p].resolved
     /\ \A p \in main.crashed : pumps'[p].posted = pumps[p].posted]_vars

\* C18: the worker effect's cleanup resolves every pending ACK promise and
\* rejects none (the awaiting pump goes on, no catch block runs, the registry
\* is emptied), and once the worker is closed it emits nothing: its queue is
\* not processed, no event is posted and none reaches the main thread.
C18_ShutdownResolvesAndSilences ==
  [][/\ Unmount =>
          /\ ackResolvers' = {}
          /\ store' = store
          /\ \A p \in DOMAIN pumps :
               (\E e \in ackResolvers : Awaits(pumps[p], p, e)) =>
                 /\ pumps'[p].resolved = pumps[p].resolved + 1
                 /\ pumps'[p].pc = "reading"
     /\ closed =>
          /\ closed'
          /\ UNCHANGED <<core, emitted, lastBatches, shadow, ackLog, windowLog>>
          /\ toMain' = <<>>
          /\ main'.acksReceived = main.acksReceived]_vars

\* C18 witness: the worker was shut down with an INGEST still in its queue and
\* its processQueue timer pending, and the pump that awaited the ACK of that
\* batch has been resolved without it
C18_ShutdownWithQueuedBatch ==
  /\ closed
  /\ core.queue # <<>>
  /\ core.processing
  /\ \E p \in DOMAIN pumps :
       /\ pumps[p].resolved = main.acksReceived + 1
       /\ pumps[p].pc = "reading"
       /\ store.status = "streaming"

\* C19: on the worker effect's cleanup the source of every running pump is
\* cancelled, and after it no pump reads a batch or posts an INGEST and the
\* store status does not move to error.
C19_ShutdownCancelsSource ==
  [][/\ Unmount =>
          \A p \in DOMAIN pumps : pumps[p].pc # "done" => pumps'[p].source = "cancelled"
     /\ main.worker = "gone" =>
          /\ \A p \in DOMAIN pumps :
               /\ pumps'[p].reads = pumps[p].reads
               /\ pumps'[p].posted = pumps[p].posted
          /\ store'.status = "error" => store.status = "error"]_vars

\* the step is a call of the cleanup function of pump p
CleanupCalled(p) == ~pumps[p].aborted /\ pumps'[p].aborted

\* C20: a call of the cleanup function that ingest() returned leaves the
\* source cancelled (unless it had ended), the pump's promise rejected and out
\* of the registry, the reader's lock released and the status not moved to
\* error; the pump posts no INGEST from then on.
C20_AbortCancelsAndReleases ==
  [][\A p \in DOMAIN pumps :
       /\ CleanupCalled(p) =>
            /\ pumps'[p].source # "open"
            /\ pumps'[p].pc = "done"
            /\ pumps'[p].resolved = pumps[p].resolved
            /\ ~pumps'[p].locked
            /\ \A e \in ackResolvers' : e.pump # p
            /\ store'.status = "error" => store.status = "error"
       /\ pumps[p].aborted => pumps'[p].posted = pumps[p].posted]_vars

\* the step is a dispatch call on the AtomicStore
DispatchCalled == \E e \in StoreEvents : StoreDispatch(e)

\* some field of the state differs between the snapshots before and after
FieldDiffers ==
  \E f \in DOMAIN getState(atomic) : getState(atomic')[f] # getState(atomic)[f]

\* the state objects allocated before the step are what they were
SnapshotsKept ==
  \A r \in 1..Len(atomic.snapshots) : atomic'.snapshots[r] = atomic.snapshots[r]

\* C21: after a dispatch getState() returns a reference distinct from the
\* snapshot before it exactly when some field of the state differs, and the
\* earlier snapshots are not mutated.
C21_NewSnapshotIffFieldDiffers ==
  [][DispatchCalled =>
       /\ atomic'.ref # atomic.ref <=> FieldDiffers
       /\ SnapshotsKept]_vars

TotalRowsEvent(n) == [type |-> "TOTAL_ROWS_UPDATED", totalRows |-> n]

\* the listeners subscribed before the step have each run once more in it,
\* and no other listener has run
NotifiedOnce ==
  \A l \in Listeners :
    atomic'.calls[l] = atomic.calls[l] + (IF l \in atomic.listeners THEN 1 ELSE 0)

\* C22: dispatch(TOTAL_ROWS_UPDATED) with the current totalRows leaves the
\* snapshot as it is and runs no listener; with another value the new
\* snapshot differs in totalRows only and every listener runs once.
C22_TotalRowsSuppressedWhenEqual ==
  [][\A e \in StoreEvents :
       (e.type = "TOTAL_ROWS_UPDATED" /\ StoreDispatch(e)) =>
         IF e.totalRows = getState(atomic).totalRows
         THEN /\ atomic'.ref = atomic.ref
              /\ atomic'.snapshots = atomic.snapshots
              /\ atomic'.calls = atomic.calls
         ELSE /\ atomic'.ref # atomic.ref
              /\ getState(atomic') = [getState(atomic) EXCEPT !.totalRows = e.totalRows]
              /\ SnapshotsKept
              /\ NotifiedOnce]_vars

\* C22 witness: TOTAL_ROWS_UPDATED 5 dispatched twice with a listener
\* subscribed, which has run for the first and not for the second
C22_SecondDispatchSuppressed ==
  /\ atomic.log = <<TotalRowsEvent(5), TotalRowsEvent(5)>>
  /\ atomic.listeners = {1}
  /\ atomic.calls[1] = 1
  /\ atomic.ref = 2
  /\ store.totalRows = 5

\* C23: a step that changes the store's state (an applied dispatch or a
\* setStatus) runs every subscribed listener exactly once, and inside the
\* listener getState() returns the new state; a step that does not change
\* the state runs none; a listener whose unsubscribe function has been called
\* never runs again; unsubscribing one listener leaves the others subscribed.
C23_ListenersNotifiedOncePerMutation ==
  [][/\ atomic'.ref # atomic.ref =>
          /\ NotifiedOnce
          /\ \A l \in atomic.listeners : atomic'.seen[l] = atomic'.ref
     /\ atomic'.ref = atomic.ref => atomic'.calls = atomic.calls
     /\ \A l \in atomic.unsubscribed : atomic'.calls[l] = atomic.calls[l]
     /\ \A l \in Listeners :
          Unsubscribe(l) => atomic'.listeners = atomic.listeners \ {l}]_vars

\* C23 witness: three mutations; listener 2 has run for each of them and has
\* seen the last state, listener 1 ran once and was then unsubscribed
C23_OneUnsubscribedOneNotified ==
  /\ atomic.ref = 4
  /\ atomic.calls[2] = 3
  /\ atomic.seen[2] = 4
  /\ atomic.calls[1] = 1
  /\ atomic.unsubscribed = {1}
  /\ atomic.listeners = {2}

\* the row height a scroll position is divided by: the store's pitch when
\* it is set, the layout's rowHeight otherwise
EffectiveRowHeight == IF store.pitch > 0 THEN store.pitch ELSE store.layout[1].rowHeight

\* C24: the SET_WINDOW that a scroll event posts has startRow =
\* floor(scrollTop / effectiveRowHeight) and rowCount = layout.viewportRows +
\* 2 * overscan.
C24_ScrollWindowUsesPitch ==
  [][\A st \in ScrollTops :
       (HandleScroll(st) /\ toWorker' # toWorker) =>
         toWorker'[Len(toWorker')] =
           [type     |-> "SET_WINDOW",
            startRow |-> st \div EffectiveRowHeight,
            rowCount |-> store.layout[1].viewportRows + 2 * overscanRows]]_vars

\* the value the claim gives for the input v of a column of the type: 0 for
\* a missing or null number, the integer part for an integer column, TRUE iff
\* truthy, the empty string for a missing string, the empty list for a
\* value that is no array
CoercedInput(type, v) ==
  CASE type \in {"f64", "timestamp_ms"} ->
         IF v.t \in {"undefined", "null"} THEN 0 ELSE v.n
    [] type \in {"i32", "u32"} ->
         IF v.t \in {"undefined", "null"} THEN 0
         ELSE CHOOSE k \in -8..8 :
                IF v.n >= 0 THEN 2 * k <= v.n /\ v.n < 2 * k + 2
                ELSE 2 * k >= v.n /\ v.n > 2 * k - 2
    [] type = "bool" ->
         ~(\/ v.t \in {"undefined", "null"}
           \/ v.t \in {"number", "boolean"} /\ v.n = 0
           \/ v.t = "string" /\ v.s = <<>>)
    [] type = "utf8" -> IF v.t = "string" THEN v.s ELSE <<>>
    [] type = "list_utf8" -> IF v.t = "array" THEN v.items ELSE <<>>

\* the value a consumer reads from row r of a parsed column
ReadBack(col, r) ==
  CASE col.type \in {"f64", "timestamp_ms"} -> F64Halves(RowValue(col, r))
    [] col.type = "i32"  -> GetInt32(RowValue(col, r))
    [] col.type = "u32"  -> GetUint32(RowValue(col, r), 0)
    [] col.type = "bool" -> RowValue(col, r)
    [] col.type = "utf8" -> TextDecode(RowValue(col, r))
    [] col.type = "list_utf8" ->
         [j \in 1..Len(RowValue(col, r)) |-> TextDecode(RowValue(col, r)[j])]

\* the parsed buffer holds the rows under the schema, with the seq
RoundTrips(batch, schema, rows, seq) ==
  /\ batch.ok
  /\ batch.seq = seq
  /\ batch.rowCount = Len(rows)
  /\ Len(batch.columns) = Len(schema)
  /\ \A c \in 1..Len(schema) :
       /\ batch.columns[c].type = schema[c].type
       /\ \A r \in 1..Len(rows) :
            ReadBack(batch.columns[c], r - 1)
              = CoercedInput(schema[c].type, Prop(rows[r], schema[c].name))

\* C25: parsing encodeRecordBatch(schema, rows, seq) gives a header with that
\* seq, rowCount = |rows|, colCount = |schema|, and for every row and column
\* the coerced input value.
C25_EncodeParseRoundTrip ==
  \A i \in 1..Len(stream.enqueued) :
    RoundTrips(parseBatch(stream.enqueued[i]), stream.schema, stream.source[i],
               stream.passed[i])

\* C25 witness: a buffer of two rows with seq 1 has been encoded under the
\* five-column schema, the first row with a negative fraction, a null string
\* and a non-array, the second with multi-byte characters
C25_MixedBatchEncoded ==
  /\ Len(stream.enqueued) = 2
  /\ Len(stream.schema) = 5
  /\ Len(stream.source[2]) = 2
  /\ Prop(stream.source[2][1], "a") = JsNumber(-3)
  /\ Prop(stream.source[2][2], "b") = JsString(<<97, 233>>)
  /\ ReadBack(parseBatch(stream.enqueued[2]).columns[2], 0) = -1
  /\ ReadBack(parseBatch(stream.enqueued[2]).columns[4], 1) = << <<97>>, <<>>, <<8364>> >>

\* the buffers emitted so far are one per source batch, in source order,
\* numbered from 0, and the reader gets them in that order
EmittedInOrder ==
  /\ Len(stream.enqueued) = Len(stream.source)
  /\ \A i \in 1..Len(stream.enqueued) :
       RoundTrips(parseBatch(stream.enqueued[i]), stream.schema, stream.source[i], i - 1)
  /\ Len(stream.received) <= Len(stream.enqueued)
  /\ stream.received = SubSeq(stream.enqueued, 1, Len(stream.received))
  /\ stream.state \in {"readable", "closed"} =>
       stream.received \o stream.queue = stream.enqueued
  /\ stream.state = "errored" => stream.queue = <<>>

\* C26: createRecordBatchStream emits exactly one encoded buffer per source
\* batch, in source order, with header seq 0, 1, 2, ... in emission order; it
\* closes the stream when the source is exhausted and errors the stream when
\* the source throws; a closed or errored stream emits nothing more.
C26_StreamEmitsInOrderThenSettles ==
  /\ []EmittedInOrder
  /\ [][/\ SourceEnds => stream'.state = "closed" /\ stream'.queue = stream.queue
        /\ SourceThrows => stream'.state = "errored"
        /\ stream.state \in {"closed", "errored"} =>
             stream'.state = stream.state /\ stream'.enqueued = stream.enqueued]_vars

\* C26 witness: two batches were emitted and read, and the stream is closed
C26_TwoBatchesReadThenClosed ==
  /\ stream.state = "closed"
  /\ Len(stream.source) = 2
  /\ stream.source[1] # stream.source[2]
  /\ stream.received = stream.enqueued
  /\ parseBatch(stream.received[2]).seq = 1

\* C27: the buffer of an emitted window shares no storage with the column
\* store and is not retained by it: no window buffer is the column's array,
\* an append after the emit leaves every emitted buffer as it was, and a
\* store of the consumer into its buffer leaves the column's rows as they were.
C27_WindowBufferNotAliased ==
  /\ [](\A w \in 1..Len(heap.windows) : heap.windows[w].id # heap.buf)
  /\ [][(\E src \in ColumnInputs : ColumnAppend(src)) =>
          \A w \in 1..Len(heap.windows) :
            heap'.cells[heap.windows[w].id] = heap.cells[heap.windows[w].id]]_vars
  /\ [][(\E w \in 1..MaxWindows, i \in 1..MaxColumnRows : ConsumerWrites(w, i)) =>
          ColumnRows(heap') = ColumnRows(heap)]_vars

\* C27 witness: a window of two rows was emitted, the consumer stored into
\* it, and the column was appended to afterwards and grew into a new array
C27_AppendAndWriteAfterEmit ==
  \E w \in 1..Len(heap.windows) :
    /\ heap.windows[w].at = 2
    /\ heap.length = 4
    /\ heap.buf # 1
    /\ heap.writes = 1
    /\ Len(heap.cells[heap.windows[w].id]) = 2
    /\ heap.cells[heap.windows[w].id] # SubSeq(ColumnRows(heap), 1, 2)
    /\ heap.cells[heap.windows[w].id] # SubSeq(ColumnRows(heap), 2, 3)

\* the batches a processQueue run committed
Commits(recs) == SelectSeq(recs, LAMBDA rec : HasEvent(rec.evs, "TOTAL_ROWS_UPDATED"))

\* a window is requested and rows exist after the step
WindowDue == core'.layout # <<>> /\ core'.windowCount > 0 /\ core'.totalRows > 0

\* C28: under NOMINAL every committed batch is followed by its own
\* WINDOW_UPDATE (when a window is requested and rows exist); under BUFFER
\* WINDOW_UPDATE events may be fewer, but one is emitted once the queue has
\* drained.
C28_NominalEmitsEveryUpdate ==
  [][(ProcessQueue /\ WindowDue /\ Commits(lastBatches') # <<>>) =>
       /\ core.bp.strategy = "NOMINAL" =>
            Len(WindowSeqs(emitted')) >= Len(Commits(lastBatches'))
       /\ core.bp.strategy = "BUFFER" =>
            emitted'[Len(emitted')].type = "WINDOW_UPDATE"]_vars

\* C29: the worker processes at most one queued batch per scheduling
\* quantum: a processQueue task handles one batch and, when batches remain
\* queued, leaves them to a later task, so that a command that arrived in the
\* meantime is handled before the next batch.
C29_OneBatchPerQuantum ==
  [][ProcessQueue =>
       /\ Len(lastBatches') <= 1
       /\ Len(core.queue) > 1 => core'.queue = Tail(core.queue) /\ core'.processing]_vars

\* the seqs of the queued INGEST commands, oldest first
SeqsOf(queue) == [i \in 1..Len(queue) |-> queue[i].seq]

\* the INGEST being delivered finds SHED and a full queue
ShedEvicts == core.bp.strategy = "SHED" /\ Len(core.queue) >= MAX_QUEUE_DEPTH

\* the step is a processQueue run: only processQueue clears processing
QueueProcessed == core.processing /\ ~core'.processing

\* C30: when no SHED eviction occurs, INGEST commands are processed in
\* arrival order and their INGEST_ACK events are emitted in exactly the order
\* in which the commands arrived: an INGEST that evicts nothing joins the
\* queue at its tail, processQueue acknowledges the queue from its head, and
\* as long as no command has left the queue unacknowledged the ACKs posted
\* and the commands queued are the commands delivered, in their order.
C30_AcksInArrivalOrder ==
  /\ [][(IngestHandled /\ ~ShedEvicts) =>
          SeqsOf(core'.queue)
            = Append(SeqsOf(core.queue), delivered'[Len(delivered')])]_vars
  /\ [][QueueProcessed =>
          /\ ackLog' = ackLog \o SeqsOf(core.queue)
          /\ [i \in 1..Len(lastBatches') |-> lastBatches'[i].seq] = SeqsOf(core.queue)]_vars
  /\ [](Len(ackLog) + Len(core.queue) = Len(delivered) =>
          ackLog \o SeqsOf(core.queue) = delivered)

\* C30 witness: three INGEST commands arrived before the timer fired, none
\* was evicted, and all were acknowledged in their order
C30_BurstAckedInOrder ==
  /\ ackLog = <<0, 1, 2>>
  /\ delivered = <<0, 1, 2>>
  /\ Len(lastBatches) = 3
  /\ core.queue = <<>>

\* the events of one committed batch: TOTAL_ROWS_UPDATED with the row total
\* after the batch, then INGEST_ACK(seq)
TotalThenAck(rec) ==
  /\ Len(rec.evs) = 2
  /\ rec.evs[1] = [type |-> "TOTAL_ROWS_UPDATED", totalRows |-> rec.totalAfter]
  /\ rec.totalAfter = rec.totalBefore + HeaderRowCount(rec.buffer)
  /\ rec.evs[2] = AckOf(rec.seq)

\* the events of the batches of a processQueue run, batch after batch
BatchEvents(recs) == Flatten([i \in 1..Len(recs) |-> recs[i].evs])

\* C31: for each processed batch the worker's events appear in a fixed
\* order: TOTAL_ROWS_UPDATED with the new totalRows and then INGEST_ACK(seq)
\* on success, INGEST_ERROR(seq) and then INGEST_ACK(seq) on any failure; the
\* ACK is the last event of its batch, no TOTAL_ROWS_UPDATED is emitted for a
\* failed batch, and the events of the batches are posted batch after batch.
C31_BatchEventsInFixedOrder ==
  /\ \A i \in DOMAIN lastBatches :
       \/ TotalThenAck(lastBatches[i])
       \/ ErrorThenAck(lastBatches[i].evs, lastBatches[i].seq)
  /\ lastBatches # <<>> =>
       SelectSeq(emitted, LAMBDA e : e.type # "WINDOW_UPDATE") = BatchEvents(lastBatches)

\* C31 witness: one processQueue run handled a failed batch and then a
\* committed one
C31_FailureThenSuccess ==
  /\ Len(lastBatches) = 2
  /\ HasEvent(lastBatches[1].evs, "INGEST_ERROR")
  /\ HasEvent(lastBatches[2].evs, "TOTAL_ROWS_UPDATED")
  /\ lastBatches[2].totalAfter > lastBatches[2].totalBefore
  /\ Len(emitted) >= 4

\* the component has rendered all it was told: the effect has run and no
\* setState call is waiting
PresenceSettled == presence.live /\ presence.queue = <<>> /\ ~presence.effect

\* C32: usePresence follows the lifecycle unmounted, entering, entered,
\* exiting, unmounted: once settled, an element whose show is true is mounted
\* and entering or entered (it is never unmounted while show is true), and a
\* mounted element whose show is false is exiting; an animationEnd of the
\* element itself gives entered in phase entering and unmounts in phase
\* exiting; an animationEnd whose target differs from currentTarget changes
\* nothing.
C32_PresenceLifecycle ==
  /\ [](PresenceSettled =>
          /\ presence.show =>
               presence.state.mounted /\ presence.state.phase \in {"entering", "entered"}
          /\ (~presence.show /\ presence.state.mounted) => presence.state.phase = "exiting")
  /\ [][(PresenceSettled /\ AnimationEnd(TRUE)) =>
          /\ presence.state.phase = "entering" => presence'.queue = <<SetPhase("entered")>>
          /\ presence.state.phase = "exiting" => presence'.queue = <<SetMounted(FALSE)>>]_vars
  /\ [][AnimationEnd(FALSE) =>
          presence'.queue = presence.queue /\ presence'.state = presence.state]_vars

\* the component has rendered all it was told
WarmupSettled == warmup.live /\ warmup.queue = <<>> /\ ~warmup.effect

\* C33: useWarmupExit's exiting flag is true only during the exit animation:
\* the effect of a render in which loading went from true to false sets it
\* and starts the timer of duration ms that resets it; while it is true a
\* timer of the current duration is running (so it returns to false,
\* whatever loading and duration did since); it is never true while loading
\* is true; showWarmup equals loading OR exiting.
C33_ExitingOnlyDuringExit ==
  /\ [](WarmupSettled /\ warmup.exiting =>
          ~warmup.loading /\ warmup.timer = <<warmup.duration>>)
  /\ [](warmup.live => warmup.view.showWarmup = (warmup.view.loading \/ warmup.view.exiting))
  /\ [][(WarmupRunEffect /\ warmup.prevLoading /\ ~warmup.view.loading) =>
          /\ warmup'.queue = Append(warmup.queue, TRUE)
          /\ warmup'.timer = <<warmup.view.duration>>]_vars
  /\ [][WarmupTimerFires => warmup'.queue = Append(warmup.queue, FALSE)]_vars

\* a style property as a number, a property that is not set below every size
Applied(prop) == IF prop = <<>> THEN -1 ELSE prop[1]

\* some entry is larger than the maximum on an axis the slot tracks
Exceeds(sl, entries) ==
  \E i \in 1..Len(entries) :
     \/ TracksWidth(sl.axis) /\ entries[i].w > sl.max.w
     \/ TracksHeight(sl.axis) /\ entries[i].h > sl.max.h

\* C34: the size ratchet is one-way: the minWidth and minHeight that
\* useStableSlot applies never decrease over any sequence of resize
\* observations; the style is updated only when an observed size on a tracked
\* axis exceeds the maximum seen so far; an axis that is not tracked is never
\* set.
C34_RatchetOneWay ==
  /\ [][/\ Applied(slot'.style.minWidth) >= Applied(slot.style.minWidth)
        /\ Applied(slot'.style.minHeight) >= Applied(slot.style.minHeight)]_vars
  /\ [][\A entries \in ObservedEntries :
          Observe(entries) =>
            /\ (slot'.queue # slot.queue) <=> Exceeds(slot, entries)
            /\ slot'.max.w >= slot.max.w /\ slot'.max.h >= slot.max.h]_vars
  /\ [](/\ ~TracksWidth(slot.axis) => slot.style.minWidth = <<>>
        /\ ~TracksHeight(slot.axis) => slot.style.minHeight = <<>>
        /\ Applied(slot.style.minWidth) <= slot.max.w
        /\ Applied(slot.style.minHeight) <= slot.max.h)

\* C34 witness: a slot that tracks the width has applied minWidth 20, has
\* ignored a later, smaller observation and has set no minHeight
C34_SmallerSizeIgnored ==
  /\ slot.axis = "width"
  /\ slot.style.minWidth = <<20>>
  /\ slot.style.minHeight = <<>>
  /\ slot.ignored > 0
  /\ slot.queue = <<>>

\* the layout's viewportRows follow from the viewport height and the row height
ViewportRowsOf(height, layout) == CeilDiv(height, layout.rowHeight) + 1

\* C35: after RESIZE_VIEWPORT{height} on an initialised worker the layout has
\* viewportRows = ceil(height / rowHeight) + 1 with columns, rowHeight and
\* totalRows unchanged, the resize itself emits no event, and the next
\* WINDOW_UPDATE emitted carries that new layout: every WINDOW_UPDATE
\* carries the layout the worker holds, whose viewportRows are those of the
\* last height given.
C35_ResizeRecomputesViewportRows ==
  /\ [][\A h \in ResizeHeights :
          (ResizeViewport(h) /\ core.layout # <<>>) =>
            /\ core'.layout[1].viewportRows = ViewportRowsOf(h, core.layout[1])
            /\ core'.layout[1].columns = core.layout[1].columns
            /\ core'.layout[1].rowHeight = core.layout[1].rowHeight
            /\ core'.layout[1].totalRows = core.layout[1].totalRows
            /\ emitted' = <<>>]_vars
  /\ [](\A i \in 1..Len(emitted) :
          emitted[i].type = "WINDOW_UPDATE" =>
            /\ emitted[i].window.layout = core.layout[1]
            /\ emitted[i].window.layout.viewportRows
                 = ViewportRowsOf(core.viewportHeight, core.layout[1]))

\* C36: columns only grow: over any sequence of commands no column's row
\* count ever decreases, an append increases the column's row count by
\* exactly the batch's rowCount, and an append leaves the values of all
\* previously stored rows unchanged.
C36_ColumnsOnlyGrow ==
  \A i \in DOMAIN lastBatches :
    /\ lastBatches[i].rowsKept
    /\ \A c \in DOMAIN lastBatches[i].rowsAfter :
         \/ lastBatches[i].rowsAfter[c] = lastBatches[i].rowsBefore[c]
         \/ lastBatches[i].rowsAfter[c]
              = lastBatches[i].rowsBefore[c] + HeaderRowCount(lastBatches[i].buffer)

\* ------------------------------------------------------------------------
\* C37: the cleanup function of one ingest() call leaves the pending ACK
\* registration of every other ingest() call in the registry, so the pump of
\* that call is still resolved by its ACK.
C37_AbortKeepsOtherRegistrations ==
  [][\A q \in DOMAIN pumps :
       Cleanup(q) => \A e \in ackResolvers : e.pump # q => e \in ackResolvers']_vars

\* ------------------------------------------------------------------------
\* The worker acknowledges every INGEST once, in arrival order: the k-th
\* INGEST_ACK the main thread receives answers the k-th INGEST it posted

\* worker.onmessage takes an INGEST_ACK
AckReceived ==
  /\ toMain # <<>>
  /\ Head(toMain).type = "INGEST_ACK"
  /\ main'.acksReceived = main.acksReceived + 1

\* the post that the INGEST_ACK at the head of the port answers
AckedPost == main.posters[main.acksReceived + 1]

\* the INGEST commands of pump p whose INGEST_ACK the main thread has received
AckedOf(p) ==
  Cardinality({k \in 1..main.acksReceived :
                 k <= Len(main.posters) /\ main.posters[k].pump = p})

\* the INGEST_ACK taken is the one for the seq of the post it answers
AcksAnswerPostsInOrder ==
  [][AckReceived => /\ main.acksReceived < Len(main.posters)
                    /\ Head(toMain).seq = AckedPost.seq]_vars

\* C38: an INGEST_ACK resolves only the promise of the pump that posted the
\* acknowledged command, a registration is never replaced by that of another
\* pump, and no pump has more than one posted batch whose ACK is outstanding.
C38_AckResolvesOnlyItsPump ==
  /\ [](\A p \in DOMAIN pumps : pumps[p].posted - AckedOf(p) <= 1)
  /\ [][/\ AckReceived =>
             \A p \in DOMAIN pumps :
                pumps'[p].resolved > pumps[p].resolved => p = AckedPost.pump
        /\ \A e \in ackResolvers : \A f \in ackResolvers' :
             f.seq = e.seq => f.pump = e.pump]_vars

\* ------------------------------------------------------------------------
\* the row totals that a sequence of worker events carries, in order
RECURSIVE CarriedTotals(_)
CarriedTotals(evs) ==
  IF evs = <<>> THEN <<>>
  ELSE (CASE Head(evs).type = "TOTAL_ROWS_UPDATED" -> <<Head(evs).totalRows>>
          [] Head(evs).type = "WINDOW_UPDATE" -> <<Head(evs).window.layout.totalRows>>
          [] OTHER -> <<>>)
       \o CarriedTotals(Tail(evs))

\* C39: the store's totalRows never decreases: the totals carried by the
\* TOTAL_ROWS_UPDATED and WINDOW_UPDATE events on their way to the main thread
\* start at or above the store's totalRows and never decrease along the port,
\* and every step leaves the store's totalRows the same or larger.
C39_TotalRowsNeverDecreases ==
  /\ [](NonDecreasing(<<store.totalRows>> \o CarriedTotals(toMain)))
  /\ [][store'.totalRows >= store.totalRows]_vars

\* C39 witness: a WINDOW_UPDATE has brought the store to the total of two
\* committed batches
C39_WindowCarriesSecondTotal ==
  /\ store.totalRows = 2
  /\ store.window # <<>>
  /\ store.window[1].layout.totalRows = 2
  /\ Len(ackLog) = 2

\* ------------------------------------------------------------------------
\* C40: the store status becomes complete only in a step in which a pump that
\* was not aborted sees its source end by itself, after every batch it read
\* was posted to the worker and acknowledged by the worker.
C40_CompleteOnlyAfterSourceEnded ==
  [][(store.status # "complete" /\ store'.status = "complete") =>
       \E p \in DOMAIN pumps :
          /\ pumps[p].pc = "reading"
          /\ pumps'[p].pc = "done"
          /\ pumps'[p].source = "closed"
          /\ ~pumps'[p].aborted
          /\ pumps[p].posted = pumps[p].reads
          /\ AckedOf(p) = pumps[p].posted]_vars

====
